---- MODULE Spec2Model ----
(***************************************************************************)
(* IPv6DBServer (webu/ipv6/server.py): the global address pool, the        *)
(* per-dbname mirrors, their JSON files, and the threads that touch them:  *)
(*   - the event loop, which runs one request handler, one route-monitor   *)
(*     tick or one synchronous part of the maintenance task at a time;     *)
(*   - the worker thread on which maintain_usable_addrs runs spawns()      *)
(*     (asyncio.to_thread), truly concurrent with the event loop.          *)
(* A step of the model is one lock-protected region of the code (or one    *)
(* region that touches no shared state).                                   *)
(***************************************************************************)
EXTENDS Integers, Sequences, FiniteSets, TLC

(* ------------------------------ bounds --------------------------------- *)
\* Random 64-bit suffixes a generated address can take.
NumSuffix == 1
\* Picks of one record that the model follows (use_count is unbounded).
MaxUse == 2
\* Random suffixes of the runs that need two fresh addresses (SpecSpawns).
NumWide == 2

(* ---------------------------- constants -------------------------------- *)
\* constants.py: USABLE_NUM, the default of usable_num.
USABLE_NUM == 10
\* Imported by server.py from constants; the defaults the specification gives.
SPAWN_MAX_RETRIES == 100
SPAWN_MAX_ADDRS == 100

Prefixes == {"2001:db8:1:2", "2001:db8:1:3"}
OldPrefix == "2001:db8:1:2"
Suffixes == 1..NumSuffix
Names == {"default", "other"}
Statuses == {"idle", "using", "unusable"}
Threads == {"loop", "worker"}

\* An address is the text "<prefix>:<suffix>"; the pair keeps both parts.
Addr == Prefixes \X Suffixes
NoAddr == <<"", 0>>
WideSuffixes == 1..NumWide
\* Every address a store can hold.
AllAddr == Prefixes \X (Suffixes \cup WideSuffixes)
\* The addr of a report that is no IPv6 literal.
InvalidAddr == <<"not-an-address", 0>>

VARIABLES
    prefix,       \* IPv6DBServer.prefix
    usable_num,   \* IPv6DBServer.usable_num
    global_db,    \* GlobalAddrsDB: [prefix, addrs], addrs in insertion order
    mirrors,      \* IPv6DBServer.mirrors: name -> [exists, addrs], addrs = records in insertion order
    gFile,        \* ipv6_global_addrs.json: [exists, prefix, addrs]
    mFile,        \* ipv6_mirrors/<name>.json: name -> [exists, addrs]
    checker,      \* behaviour of the reachability oracle: "any", "fail" or "ok"
    el,           \* the event loop: the handler it runs and that handler's locals
    sp,           \* per thread, the locals of spawns()/spawn() running on it
    mt,           \* maintain_usable_addrs: "sleep", "await", "done", "cancelled"
    lease,        \* history: name -> addresses picked and not reported since
    origin,       \* history: name -> address -> the operation that last wrote the record's status
    pendingFlush, \* history: update_route stored a new prefix and its flush() has not returned
    failed,       \* history: spawn() calls of the worker that returned None while the
                  \* checker always fails (capped at SPAWN_MAX_ADDRS)
    lk,           \* threading.Lock level: per thread, the call it is in, the lock
                  \* operations that call has left to do, the locks it holds
    ru,           \* IPv6RouteUpdater.run(): its arguments, /etc/ndppd.conf, the calls made
    pb            \* IPv6Prefixer(): the host's interfaces, self.interfaces, the result

vars == <<prefix, usable_num, global_db, mirrors, gFile, mFile, checker, el, sp, mt,
          lease, origin, pendingFlush, failed, lk, ru, pb>>

(* ------------------------------ helpers -------------------------------- *)
Range(s) == {s[i] : i \in 1..Len(s)}
AddrsOf(recs) == {recs[i].addr : i \in 1..Len(recs)}
IndexOf(recs, a) == CHOOSE i \in 1..Len(recs) : recs[i].addr = a
RecOf(recs, a) == recs[IndexOf(recs, a)]
Min(a, b) == IF a < b THEN a ELSE b

\* str.startswith(prefix) on "<prefix>:<suffix>".
StartsWith(a, p) == a[1] = p

(* ------------------------- MirrorAddrInfo ------------------------------- *)
\* last_used_at: 0 is None, 1 a timestamp.
MirrorAddrInfo(a) == [addr |-> a, status |-> "idle", last_used_at |-> 0, use_count |-> 0]

\* to_dict: the status is written as its value, last_used_at as its ISO string (a
\* one-element tuple here) or null (the empty tuple).
ToDict(r) == [addr |-> r.addr, status |-> r.status,
              last_used_at |-> IF r.last_used_at # 0 THEN <<r.last_used_at>> ELSE <<>>,
              use_count |-> r.use_count]

FromDictFresh(d) == MirrorAddrInfo(d.addr)

\* from_dict: AddrStatus(status), fromisoformat(last_used_at) unless it is null.
FromDict(d) == [addr |-> d.addr, status |-> d.status,
                last_used_at |-> IF d.last_used_at # <<>> THEN d.last_used_at[1] ELSE 0,
                use_count |-> d.use_count]

\* A fresh record for each address of a list, in the list's order.
FreshRecords(as) == [i \in 1..Len(as) |-> MirrorAddrInfo(as[i])]

(* --------------------------- GlobalAddrsDB ------------------------------ *)
\* load: nothing when the file is missing; json.load raises on a document that is not
\* JSON (file.bad), the exception is caught and logged, and nothing was assigned.
GlobalLoad(g, file) ==
    IF file.exists /\ ~file.bad THEN [prefix |-> file.prefix, addrs |-> file.addrs] ELSE g

GlobalSaved(g) == [exists |-> TRUE, bad |-> FALSE, prefix |-> g.prefix, addrs |-> g.addrs]

AddAddrAgain(g, a) == [g EXCEPT !.addrs = Append(@, a)]

AddAddr(g, a) ==
    IF a \in Range(g.addrs) THEN g ELSE [g EXCEPT !.addrs = Append(@, a)]

GetAllAddrs(g) == g.addrs

SetPrefix(g, p) == [g EXCEPT !.prefix = p]

(* ------------------------------ MirrorDB -------------------------------- *)
MirrorLoad(recs, file) ==
    IF file.exists /\ ~file.bad
    THEN [i \in 1..Len(file.addrs) |-> FromDict(file.addrs[i])]
    ELSE recs

MirrorSaved(recs) ==
    [exists |-> TRUE, bad |-> FALSE, addrs |-> [i \in 1..Len(recs) |-> ToDict(recs[i])]]

SyncNoAdd(recs, global_addrs) ==
    SelectSeq(recs, LAMBDA r : r.addr \in Range(global_addrs))

SyncNoRemove(recs, global_addrs) ==
    LET new == SelectSeq(global_addrs, LAMBDA a : a \notin AddrsOf(recs))
    IN  recs \o FreshRecords(new)

SyncReset(recs, global_addrs) == FreshRecords(global_addrs)

SyncFromGlobal(recs, global_addrs) ==
    LET new == SelectSeq(global_addrs, LAMBDA a : a \notin AddrsOf(recs))
        added == recs \o FreshRecords(new)
    IN  SelectSeq(added, LAMBDA r : r.addr \in Range(global_addrs))

FirstRecord(recs) == IF Len(recs) > 0 THEN 1 ELSE 0

FirstAny(recs) ==
    IF \E i \in 1..Len(recs) : recs[i].status # "using"
    THEN CHOOSE i \in 1..Len(recs) :
            /\ recs[i].status # "using"
            /\ \A j \in 1..(i - 1) : recs[j].status = "using"
    ELSE 0

FirstIdleOrUsing(recs) ==
    IF \E i \in 1..Len(recs) : recs[i].status = "idle"
    THEN CHOOSE i \in 1..Len(recs) :
            /\ recs[i].status = "idle"
            /\ \A j \in 1..(i - 1) : recs[j].status # "idle"
    ELSE IF \E i \in 1..Len(recs) : recs[i].status = "using"
    THEN CHOOSE i \in 1..Len(recs) :
            /\ recs[i].status = "using"
            /\ \A j \in 1..(i - 1) : recs[j].status # "using"
    ELSE 0

\* The index get_idle_addr stops at: the first IDLE record in dict order; 0 for None.
FirstIdle(recs) ==
    IF \E i \in 1..Len(recs) : recs[i].status = "idle"
    THEN CHOOSE i \in 1..Len(recs) :
            /\ recs[i].status = "idle"
            /\ \A j \in 1..(i - 1) : recs[j].status # "idle"
    ELSE 0

AcquireAll(recs, i) ==
    [j \in 1..Len(recs) |->
        IF recs[j].status = "idle"
        THEN [recs[j] EXCEPT !.status = "using", !.last_used_at = 1, !.use_count = @ + 1]
        ELSE recs[j]]

Acquire(recs, i) ==
    [recs EXCEPT ![i] = [@ EXCEPT !.status = "using",
                                  !.last_used_at = 1,
                                  !.use_count = @ + 1]]

ReleaseReset(recs, a, s) ==
    IF a \in AddrsOf(recs)
    THEN [recs EXCEPT ![IndexOf(recs, a)] = [MirrorAddrInfo(a) EXCEPT !.status = s]]
    ELSE recs

ReleaseCreate(recs, a, s) ==
    IF a \in AddrsOf(recs)
    THEN [recs EXCEPT ![IndexOf(recs, a)] = [@ EXCEPT !.status = s]]
    ELSE Append(recs, [MirrorAddrInfo(a) EXCEPT !.status = s])

\* release_addr: a known address gets the reported status.
ReleaseAddr(recs, a, s) ==
    IF a \in AddrsOf(recs)
    THEN [recs EXCEPT ![IndexOf(recs, a)] = [@ EXCEPT !.status = s]]
    ELSE recs

IdleCount(recs) == Cardinality({i \in 1..Len(recs) : recs[i].status = "idle"})

\* The number of records of recs whose status is s.
CountStatus(recs, s) == Cardinality({i \in 1..Len(recs) : recs[i].status = s})

GetStatsLoose(recs) ==
    [total |-> Len(recs),
     idle |-> CountStatus(recs, "idle"),
     using |-> Cardinality({i \in 1..Len(recs) : recs[i].status # "idle"}),
     unusable |-> CountStatus(recs, "unusable")]

\* get_stats: the length of the dict and one count per status.
GetStats(recs) ==
    [total |-> Len(recs),
     idle |-> CountStatus(recs, "idle"),
     using |-> CountStatus(recs, "using"),
     unusable |-> CountStatus(recs, "unusable")]

(* --------------------------- IPv6DBServer ------------------------------- *)
NoMirror == [exists |-> FALSE, addrs |-> <<>>]

GetMirrorAlone(ms, g, files, name) ==
    [n \in Names |->
        IF n # name THEN NoMirror
        ELSE IF ms[name].exists THEN ms[name]
        ELSE [exists |-> TRUE,
              addrs |-> SyncFromGlobal(MirrorLoad(<<>>, files[name]), g.addrs)]]

\* get_mirror: an unknown name gets a MirrorDB (which loads its file) synced from the
\* global pool; a known one is returned as it is.
GetMirror(ms, g, files, name) ==
    IF ms[name].exists THEN ms
    ELSE [ms EXCEPT ![name] =
            [exists |-> TRUE,
             addrs |-> SyncFromGlobal(MirrorLoad(<<>>, files[name]), GetAllAddrs(g))]]

\* _generate_random_addr: the current prefix and a random suffix.
GenerateRandomAddr(p, suffix) == <<p, suffix>>

(* ------------------------------ history -------------------------------- *)
NoOrigin == [a \in AllAddr |-> "none"]

\* The tags of one mirror after its records went from old to new: a record that
\* appeared is tagged tag, one that disappeared loses its tag.
Retag(o, old, new, tag) ==
    [a \in AllAddr |-> IF a \in AddrsOf(new)
                    THEN (IF a \in AddrsOf(old) THEN o[a] ELSE tag)
                    ELSE "none"]

\* The tags after get_mirror(name): a mirror it created holds loaded and fresh records.
OriginAfterGet(o, ms, files, new, name) ==
    IF ms[name].exists THEN o
    ELSE [o EXCEPT ![name] =
            [a \in AllAddr |-> IF a \notin AddrsOf(new[name].addrs) THEN "none"
                            ELSE IF files[name].exists /\ a \in AddrsOf(files[name].addrs)
                                 THEN "load" ELSE "sync"]]

(* ------------------------------ initial -------------------------------- *)
ElIdle == [pc |-> "idle", m |-> "", addr |-> NoAddr, status |-> "", success |-> FALSE,
           via |-> "",
           runs |-> 0, snap |-> <<>>]
SpOff == [pc |-> "off", n |-> 0, i |-> 0, fails |-> 0, out |-> <<>>,
          addr |-> NoAddr, snap |-> <<>>, checks |-> 0, stop |-> FALSE]

NoGlobalFile == [exists |-> FALSE, bad |-> FALSE, prefix |-> "", addrs |-> <<>>]
NoMirrorFile == [exists |-> FALSE, bad |-> FALSE, addrs |-> <<>>]
\* A file that holds no JSON document: empty (truncated by open(path, "w")) or cut off
\* in the middle of json.dump.
BadGlobalFile == [exists |-> TRUE, bad |-> TRUE, prefix |-> "", addrs |-> <<>>]
BadMirrorFile == [exists |-> TRUE, bad |-> TRUE, addrs |-> <<>>]
OldAddr == <<OldPrefix, 1>>

\* The files a previous run can have left: none, or a pool of one address saved under
\* the prefix of that time, with the "default" mirror's record of it; the pool's file
\* is empty when that run ended between flush()'s global_db.flush() and its flush of
\* the mirrors.
InitFiles ==
    {[g |-> NoGlobalFile, m |-> [n \in Names |-> NoMirrorFile]]}
    \cup
    {[g |-> [exists |-> TRUE, bad |-> FALSE, prefix |-> OldPrefix, addrs |-> ga],
      m |-> [n \in Names |-> IF n = "default" THEN mf ELSE NoMirrorFile]] :
        ga \in {<<OldAddr>>, <<>>},
        mf \in {NoMirrorFile}
               \cup {[exists |-> TRUE, bad |-> FALSE,
                      addrs |-> <<[addr |-> OldAddr, status |-> st,
                                   last_used_at |-> <<1>>, use_count |-> 1]>>] :
                        st \in {"using", "unusable"}}}

\* GlobalAddrsDB.__init__: empty, then load().
NewGlobalDB(file) == GlobalLoad([prefix |-> "", addrs |-> <<>>], file)

\* _load_existing_mirrors: get_mirror for every <name>.json.
LoadExistingMirrors(g, files) ==
    [n \in Names |->
        IF files[n].exists
        THEN GetMirror([k \in Names |-> NoMirror], g, files, n)[n]
        ELSE NoMirror]

\* IPv6DBServer.__init__ on the files, with the prefix the probe reports.
Construct(files, probe, num, chk) ==
    LET g == SetPrefix(NewGlobalDB(files.g), probe)
        ms == LoadExistingMirrors(g, files.m)
    IN  /\ prefix = probe
        /\ usable_num = num
        /\ global_db = g
        /\ mirrors = ms
        /\ gFile = files.g
        /\ mFile = files.m
        /\ checker = chk
        /\ el = ElIdle
        /\ sp = [t \in Threads |-> SpOff]
        /\ mt = "sleep"
        /\ lease = [n \in Names |-> {}]
        /\ origin = [n \in Names |->
                        [a \in AllAddr |-> IF a \in AddrsOf(ms[n].addrs) THEN "load" ELSE "none"]]
        /\ pendingFlush = FALSE
        /\ failed = 0
        /\ lk = [t \in Threads |-> [op |-> "", todo |-> <<>>, held |-> {}]]
        /\ ru = [pc |-> "off", force |-> FALSE, prefix |-> "", conf0 |-> <<>>, conf |-> <<>>,
                 todo |-> <<>>, log |-> <<>>]
        /\ pb = [pc |-> "off", ifs |-> <<>>, todo |-> <<>>, interfaces |-> <<>>, prefix |-> ""]

\* usable_num of the runs the model follows (-n on the command line).
UsableNum == 1

\* The most interfaces of a host, and the most IPv6 addresses of an interface, that
\* the model of IPv6Prefixer follows.
MaxIfs == 2
MaxIfAddrs == 2

Init == \E files \in InitFiles, probe \in Prefixes : Construct(files, probe, UsableNum, "any")

(* ------------------------- lease handlers ------------------------------- *)
\* The variables no handler of the lease API writes.
LeaseFrame == <<prefix, usable_num, global_db, gFile, mFile, checker, sp, mt,
                pendingFlush, failed, lk, ru, pb>>

\* pick(dbname), first region: get_mirror(dbname). The model follows a record up to
\* MaxUse picks.
Pick(m) ==
    /\ el.pc = "idle"
    /\ LET ms == GetMirror(mirrors, global_db, mFile, m)
           i == FirstIdle(ms[m].addrs)
       IN  /\ (i # 0 => ms[m].addrs[i].use_count < MaxUse)
           /\ mirrors' = ms
           /\ origin' = OriginAfterGet(origin, mirrors, mFile, ms, m)
    /\ el' = [ElIdle EXCEPT !.pc = "pick", !.m = m]
    /\ UNCHANGED <<LeaseFrame, lease>>

\* pick(dbname), second region: mirror.get_idle_addr(); addr is what pick returns.
PickAcquire ==
    /\ el.pc = "pick"
    /\ LET m == el.m
           recs == mirrors[m].addrs
           i == FirstIdle(recs)
       IN  IF i = 0
           THEN /\ el' = [el EXCEPT !.pc = "picked", !.addr = NoAddr, !.success = FALSE]
                /\ UNCHANGED <<mirrors, lease, origin>>
           ELSE /\ recs[i].use_count < MaxUse
                /\ mirrors' = [mirrors EXCEPT ![m].addrs = Acquire(recs, i)]
                /\ el' = [el EXCEPT !.pc = "picked", !.addr = recs[i].addr,
                                    !.success = TRUE]
                /\ lease' = [lease EXCEPT ![m] = @ \cup {recs[i].addr}]
                /\ origin' = [origin EXCEPT ![m][recs[i].addr] = "pick"]
    /\ UNCHANGED LeaseFrame

\* GET /pick answers {success: addr is not None, addr, dbname}.
PickReturn ==
    /\ el.pc = "picked"
    /\ el' = ElIdle
    /\ UNCHANGED <<LeaseFrame, mirrors, lease, origin>>

\* report(dbname, report_info), first region: get_mirror(dbname).
Report(m) ==
    /\ el.pc = "idle"
    /\ LET ms == GetMirror(mirrors, global_db, mFile, m)
       IN  /\ mirrors' = ms
           /\ origin' = OriginAfterGet(origin, mirrors, mFile, ms, m)
    /\ el' = [ElIdle EXCEPT !.pc = "report", !.m = m]
    /\ UNCHANGED <<LeaseFrame, lease>>

\* report(dbname, report_info), second region: mirror.release_addr(report_info), for
\* the address (one of S) and the status of the request; report() returns True.
ReportReleaseOf(S) ==
    /\ el.pc = "report"
    /\ \E a \in S, s \in Statuses :
        LET m == el.m
            recs == mirrors[m].addrs
        IN  /\ mirrors' = [mirrors EXCEPT ![m].addrs = ReleaseAddr(recs, a, s)]
            /\ el' = [el EXCEPT !.pc = "reported", !.addr = a, !.status = s,
                                !.success = TRUE]
            /\ lease' = [lease EXCEPT ![m] = @ \ {a}]
            /\ origin' = IF a \in AddrsOf(recs)
                         THEN [origin EXCEPT ![m][a] = "report"]
                         ELSE origin
    /\ UNCHANGED LeaseFrame

\* A report of an address the server can have issued.
ReportRelease == ReportReleaseOf(Addr)

\* A report whose addr is any string of the request body: the handler builds
\* AddrReportInfo(addr=req.report_info.addr, ...) from it as it is.
ReportReleaseAny == ReportReleaseOf(AllAddr \cup {InvalidAddr})

\* A status string of a request body that is not the value of an AddrStatus member.
BadStatuses == {"busy"}

\* POST /report (or /reports) with such a status: the handler evaluates
\* AddrStatus(req.report_info.status), which raises ValueError before server.report()
\* is called; nothing in the handler catches it.
ReportBadStatus(m) ==
    /\ el.pc = "idle"
    /\ \E s \in BadStatuses :
        el' = [ElIdle EXCEPT !.pc = "report_raised", !.m = m, !.status = s]
    /\ UNCHANGED <<LeaseFrame, mirrors, lease, origin>>

\* The exception leaves the handler: the framework answers 500 Internal Server Error.
ReportRaised ==
    /\ el.pc = "report_raised"
    /\ el' = ElIdle
    /\ UNCHANGED <<LeaseFrame, mirrors, lease, origin>>

\* POST /report answers {success: True, dbname}.
ReportReturn ==
    /\ el.pc = "reported"
    /\ el' = ElIdle
    /\ UNCHANGED <<LeaseFrame, mirrors, lease, origin>>

\* GET /stats?dbname=: get_mirror(dbname), then its get_stats(), which writes nothing.
Stats(m) ==
    /\ el.pc = "idle"
    /\ ~mirrors[m].exists
    /\ LET ms == GetMirror(mirrors, global_db, mFile, m)
       IN  /\ mirrors' = ms
           /\ origin' = OriginAfterGet(origin, mirrors, mFile, ms, m)
    /\ UNCHANGED <<LeaseFrame, el, lease>>

(* ------------------------------- flush ---------------------------------- *)
\* flush(dbname), first region: get_mirror(dbname).
FlushName(m) ==
    /\ el.pc = "idle"
    /\ LET ms == GetMirror(mirrors, global_db, mFile, m)
       IN  /\ mirrors' = ms
           /\ origin' = OriginAfterGet(origin, mirrors, mFile, ms, m)
    /\ el' = [ElIdle EXCEPT !.pc = "fn_clear", !.m = m]
    /\ UNCHANGED <<LeaseFrame, lease>>

FlushNameClearAll ==
    /\ el.pc = "fn_clear"
    /\ mirrors' = [n \in Names |-> [mirrors[n] EXCEPT !.addrs = <<>>]]
    /\ origin' = [n \in Names |-> NoOrigin]
    /\ el' = [el EXCEPT !.pc = "fn_save"]
    /\ UNCHANGED <<LeaseFrame, lease>>

\* MirrorDB.flush, first lock region: addrs.clear().
FlushNameClear ==
    /\ el.pc = "fn_clear"
    /\ mirrors' = [mirrors EXCEPT ![el.m].addrs = <<>>]
    /\ origin' = [origin EXCEPT ![el.m] = NoOrigin]
    /\ el' = [el EXCEPT !.pc = "fn_save"]
    /\ UNCHANGED <<LeaseFrame, lease>>

\* MirrorDB.flush, second lock region: save().
FlushNameSave ==
    /\ el.pc = "fn_save"
    /\ mFile' = [mFile EXCEPT ![el.m] = MirrorSaved(mirrors[el.m].addrs)]
    /\ el' = [el EXCEPT !.pc = "fn_snap"]
    /\ UNCHANGED <<prefix, usable_num, global_db, mirrors, gFile, checker, sp, mt,
                   lease, origin, pendingFlush, failed, lk, ru, pb>>

\* flush(dbname): global_db.get_all_addrs().
FlushNameSnap ==
    /\ el.pc = "fn_snap"
    /\ el' = [el EXCEPT !.pc = "fn_sync", !.snap = GetAllAddrs(global_db)]
    /\ UNCHANGED <<LeaseFrame, mirrors, lease, origin>>

\* flush(dbname): mirror.sync_from_global(...); the handler answers.
FlushNameSync ==
    /\ el.pc = "fn_sync"
    /\ LET recs == mirrors[el.m].addrs
           new == SyncFromGlobal(recs, el.snap)
       IN  /\ mirrors' = [mirrors EXCEPT ![el.m].addrs = new]
           /\ origin' = [origin EXCEPT ![el.m] = Retag(@, recs, new, "sync")]
    /\ el' = ElIdle
    /\ UNCHANGED <<LeaseFrame, lease>>

\* POST /flush without dbname: flush().
FlushAll ==
    /\ el.pc = "idle"
    /\ el' = [ElIdle EXCEPT !.pc = "fa_gclear", !.via = "http"]
    /\ UNCHANGED <<LeaseFrame, mirrors, lease, origin>>

\* GlobalAddrsDB.flush, first lock region: addrs.clear().
FlushGlobalClear ==
    /\ el.pc = "fa_gclear"
    /\ global_db' = [global_db EXCEPT !.addrs = <<>>]
    /\ el' = [el EXCEPT !.pc = "fa_gsave"]
    /\ UNCHANGED <<prefix, usable_num, mirrors, gFile, mFile, checker, sp, mt,
                   lease, origin, pendingFlush, failed, lk, ru, pb>>

\* GlobalAddrsDB.flush, second lock region: save().
FlushGlobalSave ==
    /\ el.pc = "fa_gsave"
    /\ gFile' = GlobalSaved(global_db)
    /\ el' = [el EXCEPT !.pc = "fa_mirrors"]
    /\ UNCHANGED <<prefix, usable_num, global_db, mirrors, mFile, checker, sp, mt,
                   lease, origin, pendingFlush, failed, lk, ru, pb>>

\* flush(): under _mirrors_lock, mirror.flush() (clear, save) for every mirror. No other
\* thread touches a mirror without _mirrors_lock while this runs. flush() returns: to
\* the handler, or to update_route, whose tick is then over.
FlushMirrors ==
    /\ el.pc = "fa_mirrors"
    /\ mirrors' = [n \in Names |-> [mirrors[n] EXCEPT !.addrs = <<>>]]
    /\ mFile' = [n \in Names |-> IF mirrors[n].exists THEN MirrorSaved(<<>>) ELSE mFile[n]]
    /\ origin' = [n \in Names |-> NoOrigin]
    /\ pendingFlush' = FALSE
    /\ el' = ElIdle
    /\ UNCHANGED <<prefix, usable_num, global_db, gFile, checker, sp, mt, lease, failed, lk, ru, pb>>

(* ---------------------------- save and load ----------------------------- *)
AfterBatchSleeps(should_stop) == "sleep"

\* maintain_usable_addrs after self.save(): if should_stop: return; else it sleeps
\* MAINTAIN_INTERVAL and loops.
AfterBatch(should_stop) == IF should_stop THEN "done" ELSE "sleep"

\* save(), first region: global_db.save(). POST /save.
Save ==
    /\ el.pc = "idle"
    /\ gFile' = GlobalSaved(global_db)
    /\ el' = [ElIdle EXCEPT !.pc = "sv_m", !.via = "http"]
    /\ UNCHANGED <<prefix, usable_num, global_db, mirrors, mFile, checker, sp, mt,
                   lease, origin, pendingFlush, failed, lk, ru, pb>>

\* save(), second region: under _mirrors_lock, mirror.save() for every mirror. Called
\* by the maintenance task, the task then stops for good if spawns() said so.
SaveMirrors ==
    /\ el.pc = "sv_m"
    /\ mFile' = [n \in Names |->
                    IF mirrors[n].exists THEN MirrorSaved(mirrors[n].addrs) ELSE mFile[n]]
    /\ IF el.via = "maint"
       THEN /\ mt' = AfterBatch(sp["worker"].stop)
            /\ sp' = [sp EXCEPT !["worker"] = SpOff]
       ELSE UNCHANGED <<mt, sp>>
    /\ el' = ElIdle
    /\ UNCHANGED <<prefix, usable_num, global_db, mirrors, gFile, checker, lease, origin,
                   pendingFlush, failed, lk, ru, pb>>

\* load(), first region: global_db.load().
Load ==
    /\ el.pc = "idle"
    /\ global_db' = GlobalLoad(global_db, gFile)
    /\ el' = [ElIdle EXCEPT !.pc = "ld_m"]
    /\ UNCHANGED <<prefix, usable_num, mirrors, gFile, mFile, checker, sp, mt,
                   lease, origin, pendingFlush, failed, lk, ru, pb>>

\* load(), second region: under _mirrors_lock, mirror.load() for every mirror.
LoadMirrors ==
    /\ el.pc = "ld_m"
    /\ mirrors' = [n \in Names |->
                    IF mirrors[n].exists
                    THEN [mirrors[n] EXCEPT !.addrs = MirrorLoad(@, mFile[n])]
                    ELSE mirrors[n]]
    /\ origin' = [n \in Names |->
                    IF mirrors[n].exists /\ mFile[n].exists
                    THEN [a \in AllAddr |-> IF a \in AddrsOf(mFile[n].addrs)
                                         THEN "load" ELSE "none"]
                    ELSE origin[n]]
    /\ el' = ElIdle
    /\ UNCHANGED <<LeaseFrame, lease>>

(* ----------------------------- spawning --------------------------------- *)
\* The retry loop of spawn() on a checker whose first success is the firstGood-th
\* check of the candidate (0: it never succeeds): is_good, and the checks made.
CheckOnce(firstGood, retry) == [good |-> firstGood = 1, checks |-> 1]

RECURSIVE CheckLoop(_, _)
CheckLoop(firstGood, retry) ==
    IF retry >= SPAWN_MAX_RETRIES THEN [good |-> FALSE, checks |-> retry]
    ELSE IF retry + 1 = firstGood THEN [good |-> TRUE, checks |-> retry + 1]
    ELSE CheckLoop(firstGood, retry + 1)

\* What the checker can do with one candidate.
CheckerChoices ==
    IF checker = "fail" THEN {0}
    ELSE IF checker = "ok" THEN {1}
    ELSE {0, 1, SPAWN_MAX_RETRIES}

\* spawns(num) begins.
SpStart(n) == [SpOff EXCEPT !.pc = "gen", !.n = n]

SpawnsStepNoReset(l, addr) ==
    LET fails == IF addr # NoAddr THEN l.fails ELSE l.fails + 1
        out == IF addr # NoAddr THEN Append(l.out, addr) ELSE l.out
        stop == fails >= SPAWN_MAX_ADDRS
        more == ~stop /\ l.i + 1 < l.n
    IN  [SpOff EXCEPT !.pc = IF more THEN "gen" ELSE "ret",
                      !.n = l.n, !.i = l.i + 1, !.fails = fails, !.out = out,
                      !.stop = stop]

SpawnsStepNoBreak(l, addr) ==
    LET fails == IF addr # NoAddr THEN 0 ELSE l.fails + 1
        out == IF addr # NoAddr THEN Append(l.out, addr) ELSE l.out
    IN  [SpOff EXCEPT !.pc = IF l.i + 1 < l.n THEN "gen" ELSE "ret",
                      !.n = l.n, !.i = l.i + 1, !.fails = fails, !.out = out,
                      !.stop = fails >= SPAWN_MAX_ADDRS]

\* The body of the loop of spawns() once spawn() has returned addr (NoAddr for None),
\* and the return of spawns().
SpawnsStep(l, addr) ==
    LET fails == IF addr # NoAddr THEN 0 ELSE l.fails + 1
        out == IF addr # NoAddr THEN Append(l.out, addr) ELSE l.out
        stop == fails >= SPAWN_MAX_ADDRS
        more == ~stop /\ l.i + 1 < l.n
    IN  [SpOff EXCEPT !.pc = IF more THEN "gen" ELSE "ret",
                      !.n = l.n, !.i = l.i + 1, !.fails = fails, !.out = out,
                      !.stop = stop]

\* The thread's spawn code runs: the worker whenever it has a batch, the event loop
\* while it serves GET /spawn or runs spawns().
Running(t) == t = "worker" \/ el.pc \in {"spawn", "spawns"}

\* spawn(): addr = self._generate_random_addr(), the random suffix one of S.
SpGenFrom(t, S) ==
    /\ Running(t)
    /\ sp[t].pc = "gen"
    /\ \E suffix \in S :
        sp' = [sp EXCEPT ![t].pc = "check",
                         ![t].addr = GenerateRandomAddr(prefix, suffix)]
    /\ UNCHANGED <<prefix, usable_num, global_db, mirrors, gFile, mFile, checker, el, mt,
                   lease, origin, pendingFlush, failed, lk, ru, pb>>

SpGen(t) == SpGenFrom(t, Suffixes)

SpGenWide(t) == SpGenFrom(t, WideSuffixes)

\* spawn(): the retry loop of check(addr), which touches no shared state. When every
\* check fails spawn() returns None.
SpCheck(t) ==
    /\ Running(t)
    /\ sp[t].pc = "check"
    /\ \E firstGood \in CheckerChoices :
        LET r == CheckLoop(firstGood, 0)
        IN  IF r.good
            THEN /\ sp' = [sp EXCEPT ![t].pc = "add", ![t].checks = r.checks]
                 /\ UNCHANGED failed
            ELSE /\ sp' = [sp EXCEPT ![t] = [SpawnsStep(@, NoAddr) EXCEPT
                                                    !.checks = r.checks]]
                 /\ failed' = IF checker = "fail" /\ t = "worker"
                              THEN Min(failed + 1, SPAWN_MAX_ADDRS)
                              ELSE failed
    /\ UNCHANGED <<prefix, usable_num, global_db, mirrors, gFile, mFile, checker, el, mt,
                   lease, origin, pendingFlush, lk, ru, pb>>

\* spawn(): self.global_db.add_addr(addr).
SpAdd(t) ==
    /\ Running(t)
    /\ sp[t].pc = "add"
    /\ global_db' = AddAddr(global_db, sp[t].addr)
    /\ sp' = [sp EXCEPT ![t].pc = "snap"]
    /\ UNCHANGED <<prefix, usable_num, mirrors, gFile, mFile, checker, el, mt,
                   lease, origin, pendingFlush, failed, lk, ru, pb>>

\* _sync_all_mirrors(): global_addrs = self.global_db.get_all_addrs().
SpSnap(t) ==
    /\ Running(t)
    /\ sp[t].pc = "snap"
    /\ sp' = [sp EXCEPT ![t].pc = "sync", ![t].snap = GetAllAddrs(global_db)]
    /\ UNCHANGED <<prefix, usable_num, global_db, mirrors, gFile, mFile, checker, el, mt,
                   lease, origin, pendingFlush, failed, lk, ru, pb>>

\* _sync_all_mirrors(): under _mirrors_lock, sync_from_global(global_addrs) for every
\* mirror; then spawn() returns addr.
SpSync(t) ==
    /\ Running(t)
    /\ sp[t].pc = "sync"
    /\ LET new == [n \in Names |->
                    IF mirrors[n].exists
                    THEN [mirrors[n] EXCEPT !.addrs = SyncFromGlobal(@, sp[t].snap)]
                    ELSE mirrors[n]]
       IN  /\ mirrors' = new
           /\ origin' = [n \in Names |->
                            Retag(origin[n], mirrors[n].addrs, new[n].addrs, "sync")]
    /\ sp' = [sp EXCEPT ![t] = SpawnsStep(@, sp[t].addr)]
    /\ UNCHANGED <<prefix, usable_num, global_db, gFile, mFile, checker, el, mt,
                   lease, pendingFlush, failed, lk, ru, pb>>

\* GET /spawn: the handler calls spawn() on the event loop, which serves nothing else
\* until it returns.
Spawn ==
    /\ el.pc = "idle"
    /\ el' = [ElIdle EXCEPT !.pc = "spawn"]
    /\ sp' = [sp EXCEPT !["loop"] = SpStart(1)]
    /\ UNCHANGED <<prefix, usable_num, global_db, mirrors, gFile, mFile, checker, mt,
                   lease, origin, pendingFlush, failed, lk, ru, pb>>

\* GET /spawn answers {success: addr is not None, addr}.
SpawnReturn ==
    /\ el.pc = "spawn"
    /\ sp["loop"].pc = "ret"
    /\ sp' = [sp EXCEPT !["loop"] = SpOff]
    /\ el' = ElIdle
    /\ UNCHANGED <<prefix, usable_num, global_db, mirrors, gFile, mFile, checker, mt,
                   lease, origin, pendingFlush, failed, lk, ru, pb>>

\* The num of the calls of spawns() that SpecSpawns follows: GET /spawns takes 1..100,
\* the maintenance task passes usable_num - exist_count.
SpawnNums == {1, 2, SPAWN_MAX_ADDRS, SPAWN_MAX_ADDRS + 1}

\* spawns(n) is called on the event loop.
Spawns(n) ==
    /\ el.pc = "idle"
    /\ el' = [ElIdle EXCEPT !.pc = "spawns"]
    /\ sp' = [sp EXCEPT !["loop"] = SpStart(n)]
    /\ UNCHANGED <<prefix, usable_num, global_db, mirrors, gFile, mFile, checker, mt,
                   lease, origin, pendingFlush, failed, lk, ru, pb>>

\* spawns() returns (addrs, should_stop). GET /spawns keeps the pair in addrs and
\* answers {success: len(addrs) > 0, addrs}; snap holds the addrs of the answer.
SpawnsReturn ==
    /\ el.pc = "spawns"
    /\ sp["loop"].pc = "ret"
    /\ el' = [el EXCEPT !.pc = "spawned",
                        !.snap = <<sp["loop"].out, sp["loop"].stop>>,
                        !.success = Len(<<sp["loop"].out, sp["loop"].stop>>) > 0]
    /\ sp' = [sp EXCEPT !["loop"] = SpOff]
    /\ UNCHANGED <<prefix, usable_num, global_db, mirrors, gFile, mFile, checker, mt,
                   lease, origin, pendingFlush, failed, lk, ru, pb>>

\* The answer of GET /spawns is sent.
SpawnsDone ==
    /\ el.pc = "spawned"
    /\ el' = ElIdle
    /\ UNCHANGED <<prefix, usable_num, global_db, mirrors, gFile, mFile, checker, sp, mt,
                   lease, origin, pendingFlush, failed, lk, ru, pb>>

(* --------------------------- maintenance -------------------------------- *)
RemainAll(num, exist_count) == num

\* remain_count = self.usable_num - exist_count.
RemainCount(num, exist_count) == num - exist_count

\* maintain_usable_addrs, one tick: count the pool and, when it is short, hand
\* spawns(remain_count) to the worker thread and await it.
MaintTick ==
    /\ el.pc = "idle"
    /\ mt = "sleep"
    /\ LET exist_count == Len(GetAllAddrs(global_db))
       IN  IF exist_count < usable_num
           THEN /\ sp' = [sp EXCEPT !["worker"] = SpStart(RemainCount(usable_num, exist_count))]
                /\ mt' = "await"
           ELSE UNCHANGED <<sp, mt>>
    /\ UNCHANGED <<prefix, usable_num, global_db, mirrors, gFile, mFile, checker, el,
                   lease, origin, pendingFlush, failed, lk, ru, pb>>

\* maintain_usable_addrs once spawns() has returned: self.save(), first region.
MaintResume ==
    /\ el.pc = "idle"
    /\ mt = "await"
    /\ sp["worker"].pc = "ret"
    /\ gFile' = GlobalSaved(global_db)
    /\ el' = [ElIdle EXCEPT !.pc = "sv_m", !.via = "maint"]
    /\ UNCHANGED <<prefix, usable_num, global_db, mirrors, mFile, checker, sp, mt,
                   lease, origin, pendingFlush, failed, lk, ru, pb>>

(* --------------------------- route monitor ------------------------------ *)
\* update_route, up to the comparison: probe the prefix; a new one is stored in the
\* server and in the global pool.
RouteTick ==
    /\ el.pc = "idle"
    /\ \E new_prefix \in Prefixes :
        IF prefix = new_prefix
        THEN UNCHANGED <<prefix, global_db, el, pendingFlush>>
        ELSE /\ prefix' = new_prefix
             /\ global_db' = SetPrefix(global_db, new_prefix)
             /\ pendingFlush' = TRUE
             /\ el' = [ElIdle EXCEPT !.pc = "ur_run", !.via = "route"]
    /\ UNCHANGED <<usable_num, mirrors, gFile, mFile, checker, sp, mt, lease,
                   origin, failed, lk, ru, pb>>

\* update_route: IPv6RouteUpdater(...).run(). It either returns, and flush() follows,
\* or raises (a route command, the config rewrite or the daemon restart failed).
RouteRun ==
    /\ el.pc = "ur_run"
    /\ \E raised \in BOOLEAN :
        el' = [el EXCEPT !.pc = IF raised THEN "ur_raised" ELSE "fa_gclear",
                         !.runs = @ + 1]
    /\ UNCHANGED <<prefix, usable_num, global_db, mirrors, gFile, mFile, checker, sp, mt,
                   lease, origin, pendingFlush, failed, lk, ru, pb>>

\* update_route: IPv6Prefixer(...) raises (no interface qualifies: interfaces[0] is an
\* IndexError) before self.prefixer is assigned; nothing was written.
RouteProbeRaised ==
    /\ el.pc = "idle"
    /\ el' = [ElIdle EXCEPT !.pc = "ur_raised", !.via = "route"]
    /\ UNCHANGED <<prefix, usable_num, global_db, mirrors, gFile, mFile, checker, sp, mt,
                   lease, origin, pendingFlush, failed, lk, ru, pb>>

RouteRaisedEnds ==
    /\ el.pc = "ur_raised"
    /\ el' = [ElIdle EXCEPT !.pc = "down", !.via = "route"]
    /\ UNCHANGED <<prefix, usable_num, global_db, mirrors, gFile, mFile, checker, sp, mt,
                   lease, origin, pendingFlush, failed, lk, ru, pb>>

\* monitor_route: except Exception: the error is logged and the tick is over.
RouteRaised ==
    /\ el.pc = "ur_raised"
    /\ el' = ElIdle
    /\ UNCHANGED <<prefix, usable_num, global_db, mirrors, gFile, mFile, checker, sp, mt,
                   lease, origin, pendingFlush, failed, lk, ru, pb>>

(* ------------------------- shutdown and restart ------------------------- *)
\* The process is killed while save() runs global_db.save(), which writes the file in
\* place (open(db_path, "w"), json.dump): before the open the file is the old one,
\* after it the file is empty or holds the part of the document written so far, and
\* at the end it is the new document.
SaveCrashGlobal ==
    /\ el.pc = "idle"
    /\ gFile' \in {gFile, BadGlobalFile, GlobalSaved(global_db)}
    /\ el' = [ElIdle EXCEPT !.pc = "down", !.via = "crash"]
    /\ UNCHANGED <<prefix, usable_num, global_db, mirrors, mFile, checker, sp, mt,
                   lease, origin, pendingFlush, failed, lk, ru, pb>>

\* The same while save() runs mirror.save() for the mirror n.
SaveCrashMirror ==
    /\ el.pc = "sv_m"
    /\ \E n \in Names :
        /\ mirrors[n].exists
        /\ \E file \in {mFile[n], BadMirrorFile, MirrorSaved(mirrors[n].addrs)} :
            mFile' = [mFile EXCEPT ![n] = file]
    /\ el' = [ElIdle EXCEPT !.pc = "down", !.via = "crash"]
    /\ UNCHANGED <<prefix, usable_num, global_db, mirrors, gFile, checker, sp, mt,
                   lease, origin, pendingFlush, failed, lk, ru, pb>>

\* lifespan, shutdown: stop_background_tasks() cancels the two tasks (the maintenance
\* task, unless it has returned, ends at its await; the thread that runs its spawns()
\* is not a task and runs on), then server.save(), first region.
Shutdown ==
    /\ el.pc = "idle"
    /\ mt' = IF mt = "done" THEN "done" ELSE "cancelled"
    /\ gFile' = GlobalSaved(global_db)
    /\ el' = [ElIdle EXCEPT !.pc = "stop_m", !.via = "stop"]
    /\ UNCHANGED <<prefix, usable_num, global_db, mirrors, mFile, checker, sp,
                   lease, origin, pendingFlush, failed, lk, ru, pb>>

\* lifespan, shutdown: server.save(), second region; the process is over.
ShutdownMirrors ==
    /\ el.pc = "stop_m"
    /\ mFile' = [n \in Names |->
                    IF mirrors[n].exists THEN MirrorSaved(mirrors[n].addrs) ELSE mFile[n]]
    /\ el' = [el EXCEPT !.pc = "down"]
    /\ UNCHANGED <<prefix, usable_num, global_db, mirrors, gFile, checker, sp, mt,
                   lease, origin, pendingFlush, failed, lk, ru, pb>>

\* A fresh process on the same data root: IPv6DBServer.__init__ on the files the
\* stopped one left, with the prefix the probe reports, one of P.
Restart(P) ==
    /\ el.pc = "down"
    /\ \E probe \in P :
        LET g == SetPrefix(NewGlobalDB(gFile), probe)
            ms == LoadExistingMirrors(g, mFile)
        IN  /\ prefix' = probe
            /\ global_db' = g
            /\ mirrors' = ms
            /\ origin' = [n \in Names |->
                            [a \in AllAddr |-> IF a \in AddrsOf(ms[n].addrs)
                                               THEN "load" ELSE "none"]]
    /\ el' = [ElIdle EXCEPT !.pc = "up"]
    /\ sp' = [t \in Threads |-> SpOff]
    /\ mt' = "sleep"
    /\ lease' = [n \in Names |-> {}]
    /\ pendingFlush' = FALSE
    /\ failed' = 0
    /\ UNCHANGED <<usable_num, gFile, mFile, checker, lk, ru, pb>>

\* lifespan, startup: start_background_tasks(); the server takes requests.
Startup ==
    /\ el.pc = "up"
    /\ el' = ElIdle
    /\ UNCHANGED <<LeaseFrame, mirrors, lease, origin>>

(* --------------------------------- locks -------------------------------- *)
\* The three kinds of threading.Lock: GlobalAddrsDB._lock ("global_db"),
\* IPv6DBServer._mirrors_lock ("mirrors") and MirrorDB._lock (the mirror's name). A
\* call is the sequence of its lock operations and of its reads or writes ("use") of
\* the data a lock is there for.
\* `with self._lock:` around one read or write of the store's data.
Locked(l) == <<[k |-> "acq", l |-> l], [k |-> "use", l |-> l], [k |-> "rel", l |-> l]>>

\* `for mirror in self.mirrors.values(): mirror.<op>()` for the mirrors S: save() and
\* sync_from_global() are one locked region, flush() is two (clear, then save()),
\* load() takes no lock.
RECURSIVE ForMirrors(_, _)
ForMirrors(S, op) ==
    IF S = {} THEN <<>>
    ELSE LET n == CHOOSE x \in S : TRUE
             one == CASE op = "load" -> <<[k |-> "use", l |-> n]>>
                      [] op = "flush" -> Locked(n) \o Locked(n)
                      [] OTHER -> Locked(n)
         IN  one \o ForMirrors(S \ {n}, op)

GetMirrorLocksNested(n, new) ==
    <<[k |-> "acq", l |-> "mirrors"], [k |-> "use", l |-> "mirrors"]>>
    \o (IF new
        THEN <<[k |-> "use", l |-> n], [k |-> "acq", l |-> n]>> \o Locked("global_db")
             \o <<[k |-> "use", l |-> n], [k |-> "rel", l |-> n], [k |-> "use", l |-> "mirrors"]>>
        ELSE <<>>)
    \o <<[k |-> "use", l |-> "mirrors"], [k |-> "rel", l |-> "mirrors"]>>

\* get_mirror(dbname): under _mirrors_lock, and when the name is new: MirrorDB(...)
\* (its load() takes no lock), global_db.get_all_addrs(), mirror.sync_from_global(...),
\* self.mirrors[dbname] = mirror.
GetMirrorLocks(n, new) ==
    <<[k |-> "acq", l |-> "mirrors"], [k |-> "use", l |-> "mirrors"]>>
    \o (IF new
        THEN <<[k |-> "use", l |-> n]>> \o Locked("global_db") \o Locked(n)
             \o <<[k |-> "use", l |-> "mirrors"]>>
        ELSE <<>>)
    \o <<[k |-> "use", l |-> "mirrors"], [k |-> "rel", l |-> "mirrors"]>>

SyncAllLocksHolding(S) ==
    <<[k |-> "acq", l |-> "global_db"], [k |-> "use", l |-> "global_db"],
      [k |-> "acq", l |-> "mirrors"]>>
    \o ForMirrors(S, "sync")
    \o <<[k |-> "rel", l |-> "mirrors"], [k |-> "rel", l |-> "global_db"]>>

\* _sync_all_mirrors(): global_db.get_all_addrs(), then under _mirrors_lock
\* sync_from_global on every mirror.
SyncAllLocks(S) ==
    Locked("global_db")
    \o <<[k |-> "acq", l |-> "mirrors"]>> \o ForMirrors(S, "sync")
    \o <<[k |-> "rel", l |-> "mirrors"]>>

\* The calls of IPv6DBServer, on the mirror n or on the mirrors S that exist.
OpLocks(op, n, new, S) ==
    LET all(o) == <<[k |-> "acq", l |-> "mirrors"]>> \o ForMirrors(S, o)
                  \o <<[k |-> "rel", l |-> "mirrors"]>>
        flush == Locked("global_db") \o Locked("global_db") \o all("flush")
    IN  CASE op = "lease" -> GetMirrorLocks(n, new) \o Locked(n)
          [] op = "stats" -> Locked("global_db") \o <<[k |-> "use", l |-> "mirrors"]>>
          [] op = "spawn" -> Locked("global_db") \o SyncAllLocks(S)
          [] op = "save" -> Locked("global_db") \o all("save")
          [] op = "load" -> <<[k |-> "use", l |-> "global_db"]>> \o all("load")
          [] op = "flush" -> flush
          [] op = "flush_name" -> GetMirrorLocks(n, new) \o Locked(n) \o Locked(n)
                                  \o Locked("global_db") \o Locked(n)
          [] op = "update_route" -> Locked("global_db") \o flush

\* A thread enters a call: the event loop any of them (pick, report and mirror stats
\* are "lease"), the worker thread of the maintenance task spawn().
LkBegin(t) ==
    /\ lk[t].op = ""
    /\ \E op \in IF t = "worker" THEN {"spawn"}
                 ELSE {"lease", "stats", "spawn", "save", "load", "flush", "flush_name",
                       "update_route"},
          n \in Names, new \in BOOLEAN, S \in SUBSET Names :
        lk' = [lk EXCEPT ![t] = [op |-> op, todo |-> OpLocks(op, n, new, S), held |-> {}]]
    /\ UNCHANGED <<prefix, usable_num, global_db, mirrors, gFile, mFile, checker, el, sp, mt,
                   lease, origin, pendingFlush, failed, ru, pb>>

\* The next lock operation of the thread's call; threading.Lock.acquire() waits while
\* any thread, the caller itself included, holds the lock.
LkStep(t) ==
    /\ lk[t].todo # <<>>
    /\ LET i == Head(lk[t].todo)
           rest == Tail(lk[t].todo)
       IN  /\ i.k = "acq" => \A u \in Threads : i.l \notin lk[u].held
           /\ lk' = [lk EXCEPT ![t] =
                        [op |-> IF rest = <<>> THEN "" ELSE @.op,
                         todo |-> rest,
                         held |-> CASE i.k = "acq" -> @.held \cup {i.l}
                                    [] i.k = "rel" -> @.held \ {i.l}
                                    [] OTHER -> @.held]]
    /\ UNCHANGED <<prefix, usable_num, global_db, mirrors, gFile, mFile, checker, el, sp, mt,
                   lease, origin, pendingFlush, failed, ru, pb>>

(* --------------------------- IPv6RouteUpdater --------------------------- *)
\* /etc/ndppd.conf is <<>> when the file does not exist, else the pair of the
\* interface of its proxy line and the prefix of its rule line.
\* is_ndppd_conf_latest(): the file exists, a line matches "proxy <netint>" and a line
\* matches "rule <prefix>::/64".
IsNdppdConfLatest(conf, netint, p) ==
    /\ conf # <<>>
    /\ conf[1] = netint
    /\ conf[2] = p

AfterCheckRewrites(latest, force) ==
    IF latest /\ ~force THEN <<>>
    ELSE <<"modify_ndppd_conf", "restart_ndppd", "wait_ndppd_work">>

\* run() after add_route(): the branches on is_ndppd_conf_latest() and on
\* force_restart_ndppd.
AfterCheck(latest, force) ==
    IF latest
    THEN IF force THEN <<"restart_ndppd", "wait_ndppd_work">> ELSE <<>>
    ELSE <<"modify_ndppd_conf", "restart_ndppd", "wait_ndppd_work">>

\* run(force_restart_ndppd) is called on an updater whose prefixer reported the
\* interface eth0 and a prefix; the first call finds whatever file the host has, a
\* later one the file the earlier left.
RunBegin ==
    /\ ru.pc \in {"off", "done"}
    /\ \E force \in BOOLEAN, p \in Prefixes,
          conf \in IF ru.pc = "off"
                   THEN {<<>>} \cup ({"eth0", "eth1"} \X Prefixes)
                   ELSE {ru.conf} :
        ru' = [pc |-> "run", force |-> force, prefix |-> p, conf0 |-> conf, conf |-> conf,
               todo |-> <<"add_route", "is_ndppd_conf_latest">>, log |-> <<>>]
    /\ UNCHANGED <<prefix, usable_num, global_db, mirrors, gFile, mFile, checker, el, sp, mt,
                   lease, origin, pendingFlush, failed, lk, pb>>

\* The next call of run(): add_route, is_ndppd_conf_latest (which decides the rest),
\* modify_ndppd_conf(overwrite=True) (which writes the file for eth0 and the prefix),
\* restart_ndppd, wait_ndppd_work. log lists the calls that act on the host.
RunStep ==
    /\ ru.pc = "run"
    /\ LET call == Head(ru.todo)
           rest == IF call = "is_ndppd_conf_latest"
                   THEN AfterCheck(IsNdppdConfLatest(ru.conf, "eth0", ru.prefix), ru.force)
                   ELSE Tail(ru.todo)
       IN  ru' = [ru EXCEPT
                    !.todo = rest,
                    !.pc = IF rest = <<>> THEN "done" ELSE "run",
                    !.log = IF call = "is_ndppd_conf_latest" THEN @ ELSE Append(@, call),
                    !.conf = IF call = "modify_ndppd_conf" THEN <<"eth0", ru.prefix>> ELSE @]
    /\ UNCHANGED <<prefix, usable_num, global_db, mirrors, gFile, mFile, checker, el, sp, mt,
                   lease, origin, pendingFlush, failed, lk, pb>>

(* ----------------------------- IPv6Prefixer ----------------------------- *)
\* An IPv6 address of an interface is the pair of its first character and of the
\* prefix its netmask cuts from it; an interface is its name and the list
\* ifaddresses(name)[AF_INET6], empty when the interface has no AF_INET6 entry.
\* interface.lower().startswith("cloudflare")
Excluded(name) == name \in {"CloudflareWARP"}

\* The loop over addresses[AF_INET6]: it appends the addresses that start with "2"
\* and breaks at the first one that does not.
RECURSIVE ScanAddrs(_)
ScanAddrs(addrs) ==
    IF addrs = <<>> \/ Head(addrs)[1] # "2"
    THEN <<>>
    ELSE <<Head(addrs)>> \o ScanAddrs(Tail(addrs))

\* IPv6Prefixer(...) on a host with the interfaces ifs, in the order
\* netifaces.interfaces() lists them.
ProbeBegin ==
    /\ pb.pc = "off"
    /\ LET addresses == {<<"2", "2001:db8:1:2">>, <<"2", "2001:db8:1:3">>, <<"f", "fe80:0:0:0">>}
           lists == UNION {[1..k -> addresses] : k \in 0..MaxIfAddrs}
           hosts == [name : {"eth0", "wlan0", "CloudflareWARP"}, addrs : lists]
       IN  \E ifs \in UNION {[1..k -> hosts] : k \in 0..MaxIfs} :
            pb' = [pc |-> "scan", ifs |-> ifs, todo |-> ifs, interfaces |-> <<>>,
                   prefix |-> ""]
    /\ UNCHANGED <<prefix, usable_num, global_db, mirrors, gFile, mFile, checker, el, sp, mt,
                   lease, origin, pendingFlush, failed, lk, ru>>

\* _init_network_interfaces, one interface: skipped without AF_INET6 or when
\* excluded, else its leading addresses that start with "2" are appended.
ProbeScan ==
    /\ pb.pc = "scan"
    /\ pb.todo # <<>>
    /\ LET interface == Head(pb.todo)
           found == ScanAddrs(interface.addrs)
       IN  pb' = [pb EXCEPT
                    !.todo = Tail(@),
                    !.interfaces =
                        IF interface.addrs = <<>> \/ Excluded(interface.name)
                        THEN @
                        ELSE @ \o [i \in 1..Len(found) |->
                                     [interface |-> interface.name, prefix |-> found[i][2]]]]
    /\ UNCHANGED <<prefix, usable_num, global_db, mirrors, gFile, mFile, checker, el, sp, mt,
                   lease, origin, pendingFlush, failed, lk, ru>>

\* _init_prefix: self.interfaces[0], an IndexError when the list is empty.
ProbePrefix ==
    /\ pb.pc = "scan"
    /\ pb.todo = <<>>
    /\ pb' = IF pb.interfaces = <<>>
             THEN [pb EXCEPT !.pc = "raised"]
             ELSE [pb EXCEPT !.pc = "done", !.prefix = pb.interfaces[1].prefix]
    /\ UNCHANGED <<prefix, usable_num, global_db, mirrors, gFile, mFile, checker, el, sp, mt,
                   lease, origin, pendingFlush, failed, lk, ru>>

(* ---------------------------- specifications ---------------------------- *)
\* The server under prefix changes: the route monitor, flushes and lazily created
\* mirrors on the event loop, and the maintenance task's spawns on the worker thread.
Next ==
    \/ \E m \in Names : Stats(m)
    \/ \E m \in Names : FlushName(m)
    \/ FlushNameClear
    \/ FlushNameSave
    \/ FlushNameSnap
    \/ FlushNameSync
    \/ FlushAll
    \/ FlushGlobalClear
    \/ FlushGlobalSave
    \/ FlushMirrors
    \/ SpGen("worker")
    \/ SpCheck("worker")
    \/ SpAdd("worker")
    \/ SpSnap("worker")
    \/ SpSync("worker")
    \/ MaintTick
    \/ MaintResume
    \/ SaveMirrors
    \/ RouteTick
    \/ RouteRun
    \/ RouteRaised

Spec == Init /\ [][Next]_vars

\* The dbname of the requests that SpecStore follows (DBNAME, the default).
Tenants == {"default"}

\* The stores under the whole API, one call after the other on the event loop: lease
\* calls, flushes, save and load, and GET /spawn for admissions.
NextStore ==
    \/ \E m \in Tenants : Pick(m)
    \/ PickAcquire
    \/ PickReturn
    \/ \E m \in Tenants : Report(m)
    \/ ReportRelease
    \/ ReportReturn
    \/ \E m \in Tenants : FlushName(m)
    \/ FlushNameClear
    \/ FlushNameSave
    \/ FlushNameSnap
    \/ FlushNameSync
    \/ FlushAll
    \/ FlushGlobalClear
    \/ FlushGlobalSave
    \/ FlushMirrors
    \/ Save
    \/ SaveMirrors
    \/ Load
    \/ LoadMirrors
    \/ Spawn
    \/ SpGen("loop")
    \/ SpCheck("loop")
    \/ SpAdd("loop")
    \/ SpSnap("loop")
    \/ SpSync("loop")
    \/ SpawnReturn

SpecStore == Init /\ [][NextStore]_vars

\* usable_num of the runs of SpecLease: a pool of two addresses to lend.
LeaseUsableNum == 2

InitLease ==
    \E files \in InitFiles, probe \in Prefixes : Construct(files, probe, LeaseUsableNum, "any")

\* Lease calls on one mirror while the maintenance task fills the pool: no flush, no
\* load, no prefix change.
NextLease ==
    \/ \E m \in Tenants : Pick(m)
    \/ PickAcquire
    \/ PickReturn
    \/ \E m \in Tenants : Report(m)
    \/ ReportRelease
    \/ ReportReturn
    \/ SpGen("worker")
    \/ SpCheck("worker")
    \/ SpAdd("worker")
    \/ SpSnap("worker")
    \/ SpSync("worker")
    \/ MaintTick
    \/ MaintResume
    \/ SaveMirrors

SpecLease == InitLease /\ [][NextLease]_vars

\* The maintenance task of a fresh server with the default usable_num and a checker
\* that always fails.
InitFail ==
    \E probe \in Prefixes :
        Construct([g |-> NoGlobalFile, m |-> [n \in Names |-> NoMirrorFile]],
                  probe, USABLE_NUM, "fail")

NextFail ==
    \/ SpGen("worker")
    \/ SpCheck("worker")
    \/ MaintTick
    \/ MaintResume
    \/ SaveMirrors

SpecFail == InitFail /\ [][NextFail]_vars

\* A server whose checker always fails.
InitSpawns ==
    \E files \in InitFiles, probe \in Prefixes : Construct(files, probe, UsableNum, "fail")

\* Calls of spawns(n) and picks on one mirror, one after the other; the generator
\* draws from WideSuffixes.
NextSpawns ==
    \/ \E n \in SpawnNums : Spawns(n)
    \/ SpGenWide("loop")
    \/ SpCheck("loop")
    \/ SpawnsReturn
    \/ SpawnsDone
    \/ \E m \in Tenants : Pick(m)
    \/ PickAcquire
    \/ PickReturn

SpecSpawns == InitSpawns /\ [][NextSpawns]_vars

\* The largest num of the calls of spawns() that SpecAdmit follows.
MaxNum == 2

\* A server whose checker accepts every candidate.
InitAdmit ==
    \E files \in InitFiles, probe \in Prefixes : Construct(files, probe, UsableNum, "ok")

\* The same calls, with num up to MaxNum.
NextAdmit ==
    \/ \E n \in 1..MaxNum : Spawns(n)
    \/ SpGenWide("loop")
    \/ SpCheck("loop")
    \/ SpAdd("loop")
    \/ SpSnap("loop")
    \/ SpSync("loop")
    \/ SpawnsReturn
    \/ SpawnsDone
    \/ \E m \in Tenants : Pick(m)
    \/ PickAcquire
    \/ PickReturn

SpecAdmit == InitAdmit /\ [][NextAdmit]_vars

\* The stores under lease calls, flush(dbname), save, load and GET /spawn, with the
\* process stopped (lifespan's shutdown) and started again on the files it left while
\* the host's prefix is the same.
NextRestart ==
    \/ \E m \in Tenants : Pick(m)
    \/ PickAcquire
    \/ PickReturn
    \/ \E m \in Tenants : Report(m)
    \/ ReportRelease
    \/ ReportReturn
    \/ \E m \in Tenants : FlushName(m)
    \/ FlushNameClear
    \/ FlushNameSave
    \/ FlushNameSnap
    \/ FlushNameSync
    \/ Save
    \/ SaveMirrors
    \/ Load
    \/ LoadMirrors
    \/ Spawn
    \/ SpGen("loop")
    \/ SpCheck("loop")
    \/ SpAdd("loop")
    \/ SpSnap("loop")
    \/ SpSync("loop")
    \/ SpawnReturn
    \/ Shutdown
    \/ ShutdownMirrors
    \/ Restart({prefix})
    \/ Startup

\* The first process starts on an empty data root.
InitRestart ==
    \E probe \in Prefixes :
        Construct([g |-> NoGlobalFile, m |-> [n \in Names |-> NoMirrorFile]],
                  probe, UsableNum, "any")

SpecRestart == InitRestart /\ [][NextRestart]_vars

\* Lease calls on one mirror, one after the other, with reports of any address string,
\* and GET /spawn for admissions.
NextReport ==
    \/ \E m \in Tenants : Pick(m)
    \/ PickAcquire
    \/ PickReturn
    \/ \E m \in Tenants : Report(m)
    \/ ReportReleaseAny
    \/ ReportReturn
    \/ \E m \in Tenants : ReportBadStatus(m)
    \/ ReportRaised
    \/ Spawn
    \/ SpGenWide("loop")
    \/ SpCheck("loop")
    \/ SpAdd("loop")
    \/ SpSnap("loop")
    \/ SpSync("loop")
    \/ SpawnReturn

SpecReport == Init /\ [][NextReport]_vars

\* The stores under save and load, with GET /spawn for admissions and picks for a
\* mirror, when the process can be killed during a save and is started again.
NextCrash ==
    \/ \E m \in Tenants : Pick(m)
    \/ PickAcquire
    \/ PickReturn
    \/ Save
    \/ SaveMirrors
    \/ Load
    \/ LoadMirrors
    \/ Spawn
    \/ SpGen("loop")
    \/ SpCheck("loop")
    \/ SpAdd("loop")
    \/ SpSnap("loop")
    \/ SpSync("loop")
    \/ SpawnReturn
    \/ SaveCrashGlobal
    \/ SaveCrashMirror
    \/ Restart({prefix})
    \/ Startup

SpecCrash == InitRestart /\ [][NextCrash]_vars

\* Requests that name either mirror, flushes and the route monitor, one after the
\* other on the event loop; the pool is the one the files gave.
NextNames ==
    \/ \E m \in Names : Pick(m)
    \/ PickAcquire
    \/ PickReturn
    \/ \E m \in Names : Report(m)
    \/ ReportRelease
    \/ ReportReturn
    \/ \E m \in Names : Stats(m)
    \/ \E m \in Names : FlushName(m)
    \/ FlushNameClear
    \/ FlushNameSave
    \/ FlushNameSnap
    \/ FlushNameSync
    \/ FlushAll
    \/ FlushGlobalClear
    \/ FlushGlobalSave
    \/ FlushMirrors
    \/ RouteTick
    \/ RouteRun
    \/ RouteRaised

SpecNames == Init /\ [][NextNames]_vars

\* A server on an empty data root whose pool the maintenance task fills.
InitStop ==
    \E probe \in Prefixes :
        Construct([g |-> NoGlobalFile, m |-> [n \in Names |-> NoMirrorFile]],
                  probe, LeaseUsableNum, "any")

\* The maintenance task and picks on one mirror, until the server is shut down; the
\* worker thread then finishes the batch it is in.
NextStop ==
    \/ \E m \in Tenants : Pick(m)
    \/ PickAcquire
    \/ PickReturn
    \/ SpGen("worker")
    \/ SpCheck("worker")
    \/ SpAdd("worker")
    \/ SpSnap("worker")
    \/ SpSync("worker")
    \/ MaintTick
    \/ MaintResume
    \/ SaveMirrors
    \/ Shutdown
    \/ ShutdownMirrors

SpecStop == InitStop /\ [][NextStop]_vars

\* A server on an empty data root whose checker always fails, or answers as it likes.
InitBatch ==
    \E probe \in Prefixes, chk \in {"fail", "any"} :
        Construct([g |-> NoGlobalFile, m |-> [n \in Names |-> NoMirrorFile]],
                  probe, UsableNum, chk)

\* The num of the calls of spawns() that SpecBatch follows: up to the limit and beyond
\* under the checker that always fails, up to MaxNum + 1 under the other.
BatchNums == IF checker = "fail" THEN SpawnNums ELSE 1..(MaxNum + 1)

\* Calls of spawns(n), one after the other; the generator draws from Suffixes.
NextBatch ==
    \/ \E n \in BatchNums : Spawns(n)
    \/ SpGen("loop")
    \/ SpCheck("loop")
    \/ SpAdd("loop")
    \/ SpSnap("loop")
    \/ SpSync("loop")
    \/ SpawnsReturn
    \/ SpawnsDone

SpecBatch == InitBatch /\ [][NextBatch]_vars

\* GET /spawn on the event loop while the maintenance task's batch runs on the worker
\* thread, and picks on one mirror; no flush, no load, no prefix change. The generator
\* draws from WideSuffixes.
NextRace ==
    \/ \E m \in Tenants : Pick(m)
    \/ PickAcquire
    \/ PickReturn
    \/ Spawn
    \/ SpawnReturn
    \/ \E t \in Threads : SpGenWide(t)
    \/ \E t \in Threads : SpCheck(t)
    \/ \E t \in Threads : SpAdd(t)
    \/ \E t \in Threads : SpSnap(t)
    \/ \E t \in Threads : SpSync(t)
    \/ MaintTick
    \/ MaintResume
    \/ SaveMirrors

SpecRace == InitStop /\ [][NextRace]_vars

\* A server on an empty data root with usable_num = SPAWN_MAX_ADDRS and a checker
\* that always fails: the first batch of the maintenance task reaches the limit.
InitHalt ==
    \E probe \in Prefixes :
        Construct([g |-> NoGlobalFile, m |-> [n \in Names |-> NoMirrorFile]],
                  probe, SPAWN_MAX_ADDRS, "fail")

\* The maintenance task, with the route monitor, its flush, and GET /spawn going on.
NextHalt ==
    \/ SpGen("worker")
    \/ SpCheck("worker")
    \/ MaintTick
    \/ MaintResume
    \/ SaveMirrors
    \/ RouteTick
    \/ RouteRun
    \/ RouteRaised
    \/ FlushGlobalClear
    \/ FlushGlobalSave
    \/ FlushMirrors
    \/ Spawn
    \/ SpGen("loop")
    \/ SpCheck("loop")
    \/ SpawnReturn

SpecHalt == InitHalt /\ [][NextHalt]_vars

\* The route monitor with every way its tick can fail, the flush it ends with, the
\* maintenance task beside it, until the server is shut down.
NextRoute ==
    \/ RouteTick
    \/ RouteProbeRaised
    \/ RouteRun
    \/ RouteRaised
    \/ FlushGlobalClear
    \/ FlushGlobalSave
    \/ FlushMirrors
    \/ SpGen("worker")
    \/ SpCheck("worker")
    \/ SpAdd("worker")
    \/ SpSnap("worker")
    \/ SpSync("worker")
    \/ MaintTick
    \/ MaintResume
    \/ SaveMirrors
    \/ Shutdown
    \/ ShutdownMirrors

SpecRoute == Init /\ [][NextRoute]_vars

\* The same, with the scheduling the event loop gives: a step of update_route that can
\* run does run, and IPv6RouteUpdater.run() does not fail for ever.
SpecRouteFair ==
    /\ SpecRoute
    /\ WF_vars(RouteRun)
    /\ SF_vars(RouteRun /\ el'.pc = "fa_gclear")
    /\ WF_vars(RouteRaised)
    /\ WF_vars(FlushGlobalClear)
    /\ WF_vars(FlushGlobalSave)
    /\ WF_vars(FlushMirrors)

\* The calls of the event loop and of the worker thread at the level of their locks.
SpecLocks ==
    InitStop /\ [][\E t \in Threads : LkBegin(t) \/ LkStep(t)]_vars

\* The same under a scheduler that lets a thread run, and a lock that a waiting thread
\* gets at one of the moments it is free.
SpecLocksFair ==
    /\ SpecLocks
    /\ \A t \in Threads : SF_vars(LkStep(t))

\* Calls of IPv6RouteUpdater.run(), one after the other.
SpecRun == InitStop /\ [][RunBegin \/ RunStep]_vars

\* Probes of the prefix on hosts of every shape.
SpecProbe == InitStop /\ [][ProbeBegin \/ ProbeScan \/ ProbePrefix]_vars

(* ------------------------- steps the claims name ------------------------ *)
\* get_idle_addr() ran for the pick the event loop serves.
PickStep == el.pc = "pick" /\ el'.pc = "picked"
\* release_addr() ran for the report the event loop serves.
ReleaseStep == el.pc = "report" /\ el'.pc = "reported"
\* _sync_all_mirrors() of a spawn() ran sync_from_global on every mirror.
SpSyncStep(t) == sp[t].pc = "sync" /\ sp'[t].pc # "sync"
\* flush(dbname) ran sync_from_global on its mirror.
FlushNameSyncStep == el.pc = "fn_sync" /\ el'.pc = "idle"
\* get_mirror() created the mirror n, which it syncs from the global pool.
CreateStep(n) == ~mirrors[n].exists /\ mirrors'[n].exists
\* The mirror n was cleared: by flush(dbname) or by flush().
ClearStep(n) == (el.pc = "fn_clear" /\ el.m = n /\ el'.pc = "fn_save")
                \/ (el.pc = "fa_mirrors" /\ el'.pc = "idle")
\* load() ran load() on every mirror.
LoadStep == el.pc = "ld_m" /\ el'.pc = "idle"
\* A server-initiated sync of the mirror n completed.
SyncedStep(n) ==
    /\ mirrors'[n].exists
    /\ \/ \E t \in Threads : SpSyncStep(t)
       \/ FlushNameSyncStep /\ el.m = n
       \/ CreateStep(n)
\* The same, where the list handed to sync_from_global is the pool of that moment.
SyncedCurrentStep(n) ==
    /\ mirrors'[n].exists
    /\ \/ \E t \in Threads : SpSyncStep(t) /\ sp[t].snap = GetAllAddrs(global_db)
       \/ FlushNameSyncStep /\ el.m = n /\ el.snap = GetAllAddrs(global_db)
       \/ CreateStep(n)
Unusable(recs, a) == a \in AddrsOf(recs) /\ RecOf(recs, a).status = "unusable"

(* -------------------------------- claims -------------------------------- *)
\* C1: on one mirror, under every interleaving of pick and report calls with the
\* maintenance task, a pick succeeds exactly when the mirror has an idle record; the
\* address it returns was idle, is held by no caller (picked and not reported since),
\* and leaves one idle record fewer; with no idle record the pick returns none and
\* changes nothing. So k idle addresses serve exactly k picks, pairwise distinct.
C1_NoDoubleLease ==
    [][PickStep =>
        LET recs == mirrors[el.m].addrs
        IN  IF IdleCount(recs) > 0
            THEN /\ el'.addr # NoAddr
                 /\ el'.addr \notin lease[el.m]
                 /\ RecOf(recs, el'.addr).status = "idle"
                 /\ RecOf(mirrors'[el.m].addrs, el'.addr).status = "using"
                 /\ IdleCount(mirrors'[el.m].addrs) = IdleCount(recs) - 1
            ELSE /\ el'.addr = NoAddr
                 /\ mirrors' = mirrors]_vars

\* A pick has just returned an address while another caller holds another one.
C1_Witness ==
    /\ el.pc = "picked"
    /\ el.addr # NoAddr
    /\ \E b \in lease[el.m] : b # el.addr

\* C2: in every reachable state every address of the global pool and of every mirror
\* begins with the server's current prefix.
C2_AllUnderPrefix ==
    /\ \A a \in Range(global_db.addrs) : StartsWith(a, prefix)
    /\ \A n \in Names : \A a \in AddrsOf(mirrors[n].addrs) : StartsWith(a, prefix)

\* C3: from the moment update_route has stored a new prefix until its flush() has
\* emptied the global pool and the mirrors, no step admits an address to the global
\* pool.
C3_FlushBeforeAdmission ==
    [][pendingFlush => Range(global_db'.addrs) \subseteq Range(global_db.addrs)]_vars

\* C4: a route-monitor tick that probed a new prefix ends with the global pool empty,
\* every mirror empty and IPv6RouteUpdater.run invoked once; and every candidate
\* address a spawn generates begins with the prefix stored at that moment.
C4_TickEndsFlushed ==
    [][/\ (el.via = "route" /\ el'.pc = "idle") =>
            /\ el.runs = 1
            /\ global_db'.addrs = <<>>
            /\ \A n \in Names : mirrors'[n].addrs = <<>>
       /\ \A t \in Threads :
            (sp[t].pc = "gen" /\ sp'[t].pc = "check") => StartsWith(sp'[t].addr, prefix)]_vars

\* C5: when a server-initiated sync of a mirror completes (in spawn(), at the creation
\* of the mirror, in flush(dbname)), the mirror holds no address that is absent from the
\* global pool at that moment.
C5_SyncWithinGlobal ==
    [][\A n \in Names :
        SyncedStep(n) => AddrsOf(mirrors'[n].addrs) \subseteq Range(global_db'.addrs)]_vars

\* C6: right after sync_from_global(get_all_addrs()) returns on a mirror, the list
\* being the pool's of that moment, the mirror's address set equals the global pool's.
C6_SyncEqualsGlobal ==
    [][\A n \in Names :
        SyncedCurrentStep(n) => AddrsOf(mirrors'[n].addrs) = Range(global_db'.addrs)]_vars

\* GET /spawn has admitted an address and synced the mirror, which holds two records.
C6_Witness ==
    /\ el.pc = "spawn"
    /\ sp["loop"].pc = "ret"
    /\ sp["loop"].out # <<>>
    /\ mirrors["default"].exists
    /\ Len(mirrors["default"].addrs) = 2
    /\ AddrsOf(mirrors["default"].addrs) = Range(global_db.addrs)

\* C7 as stated: a record is USING only if its address was picked on that mirror and
\* not reported since.
C7_UsingOnlyLeased ==
    \A n \in Names : \A i \in 1..Len(mirrors[n].addrs) :
        mirrors[n].addrs[i].status = "using" => mirrors[n].addrs[i].addr \in lease[n]

\* C7: a record is USING only if the last write of its status was a pick on that
\* mirror, not reported since, or a report that gave the status using, or the load of
\* a file that holds it as using; no sync and no flush makes a record USING.
C7_UsingHasCause ==
    \A n \in Names : \A i \in 1..Len(mirrors[n].addrs) :
        LET r == mirrors[n].addrs[i]
        IN  r.status = "using" =>
                \/ origin[n][r.addr] = "pick" /\ r.addr \in lease[n]
                \/ origin[n][r.addr] = "report"
                \/ origin[n][r.addr] = "load"

\* A report has just set to USING a record that no caller holds.
C7_Witness ==
    /\ el.pc = "reported"
    /\ el.status = "using"
    /\ el.addr \in AddrsOf(mirrors[el.m].addrs)
    /\ RecOf(mirrors[el.m].addrs, el.addr).status = "using"
    /\ el.addr \notin lease[el.m]

\* C8 as stated: the use_count of a record that a step keeps grows by one when the
\* step is a pick of it and is unchanged by every other step.
C8_OnlyPickChanges ==
    [][\A n \in Names, a \in Addr :
        (a \in AddrsOf(mirrors[n].addrs) /\ a \in AddrsOf(mirrors'[n].addrs)) =>
            RecOf(mirrors'[n].addrs, a).use_count =
                RecOf(mirrors[n].addrs, a).use_count
                    + (IF PickStep /\ el.m = n /\ el'.addr = a THEN 1 ELSE 0)]_vars

\* C8: while a record stays in its mirror its use_count grows by exactly one on each
\* pick of it and is unchanged by report, sync and save; load() replaces it by the
\* count the mirror's file holds; a record that appears (after a flush, a removal, or
\* in a new mirror) starts at 0, or at the file's count when the new mirror's file
\* holds it.
C8_UseCountSteps ==
    [][\A n \in Names, a \in Addr :
        a \in AddrsOf(mirrors'[n].addrs) =>
            LET new == RecOf(mirrors'[n].addrs, a).use_count
                filed == mFile[n].exists /\ a \in AddrsOf(mFile[n].addrs)
            IN  IF LoadStep /\ mirrors[n].exists /\ mFile[n].exists
                THEN new = RecOf(mFile[n].addrs, a).use_count
                ELSE IF a \in AddrsOf(mirrors[n].addrs)
                THEN new = RecOf(mirrors[n].addrs, a).use_count
                            + (IF PickStep /\ el.m = n /\ el'.addr = a THEN 1 ELSE 0)
                ELSE IF CreateStep(n) /\ filed
                THEN new = RecOf(mFile[n].addrs, a).use_count
                ELSE new = 0]_vars

\* A pick has just returned an address for the second time.
C8_Witness ==
    /\ el.pc = "picked"
    /\ el.addr # NoAddr
    /\ RecOf(mirrors[el.m].addrs, el.addr).use_count = 2

\* C9 as stated: a pick never returns an address whose record is UNUSABLE, and a record
\* leaves UNUSABLE only by a release with another status or by its removal in a sync.
C9_LeavesByReleaseOrSync ==
    [][/\ (PickStep /\ el'.addr # NoAddr) => ~Unusable(mirrors[el.m].addrs, el'.addr)
       /\ \A n \in Names, a \in Addr :
            (Unusable(mirrors[n].addrs, a) /\ ~Unusable(mirrors'[n].addrs, a)) =>
                \/ ReleaseStep /\ el.m = n /\ el'.addr = a /\ el'.status # "unusable"
                \/ SyncedStep(n) /\ a \notin AddrsOf(mirrors'[n].addrs)]_vars

\* C9: a pick never returns an address whose record is UNUSABLE; a record leaves
\* UNUSABLE only by a release with another status, by its removal in a sync, by a
\* flush of its mirror (flush(dbname), flush(), the flush of a prefix change), or by
\* load(), which replaces the records by the file's.
C9_UnusableNeverPicked ==
    [][/\ (PickStep /\ el'.addr # NoAddr) => ~Unusable(mirrors[el.m].addrs, el'.addr)
       /\ \A n \in Names, a \in Addr :
            (Unusable(mirrors[n].addrs, a) /\ ~Unusable(mirrors'[n].addrs, a)) =>
                \/ ReleaseStep /\ el.m = n /\ el'.addr = a /\ el'.status # "unusable"
                \/ SyncedStep(n) /\ a \notin AddrsOf(mirrors'[n].addrs)
                \/ ClearStep(n)
                \/ LoadStep]_vars

\* A pick has just returned an address of a mirror that holds an UNUSABLE record.
C9_Witness ==
    /\ el.pc = "picked"
    /\ el.addr # NoAddr
    /\ \E a \in Addr : Unusable(mirrors[el.m].addrs, a)

\* C10: with a checker that always fails and usable_num = 10, once 100 spawns have
\* failed the maintenance task is told to stop (spawns() returns True) or has stopped,
\* and the global pool is empty.
C10_StopsAfterLimit ==
    failed >= SPAWN_MAX_ADDRS =>
        /\ sp["worker"].stop \/ mt = "done"
        /\ global_db.addrs = <<>>

\* spawns() on the event loop is about to return.
SpawnsEnd == el.pc = "spawns" /\ sp["loop"].pc = "ret"

C12_FailingSpawn ==
    [][\A t \in Threads :
        (checker = "fail" /\ sp[t].pc = "check" /\ sp'[t].pc # "check") =>
            /\ sp[t].addr # NoAddr
            /\ sp'[t].checks = SPAWN_MAX_RETRIES
            /\ sp'[t].pc \in {"gen", "ret"}
            /\ sp'[t].out = sp[t].out
            /\ sp'[t].fails = sp[t].fails + 1
            /\ global_db' = global_db
            /\ mirrors' = mirrors]_vars

\* A spawn() has just failed after SPAWN_MAX_RETRIES checks.
C12_Witness ==
    /\ checker = "fail"
    /\ el.pc = "spawns"
    /\ sp["loop"].fails = 1
    /\ sp["loop"].checks = SPAWN_MAX_RETRIES
    /\ sp["loop"].out = <<>>

\* C13 as stated: with a checker that accepts every candidate, spawns(n) returns n
\* pairwise distinct addresses.
C13_ReturnsDistinct ==
    (checker = "ok" /\ SpawnsEnd) =>
        /\ Len(sp["loop"].out) = sp["loop"].n
        /\ Cardinality(Range(sp["loop"].out)) = sp["loop"].n

\* C13: with a checker that accepts every candidate, spawns(n) returns n addresses
\* that begin with the current prefix and are all in the global pool, which every
\* mirror then equals; each admission grows the pool by one when the candidate is new
\* and not at all when it repeats an address of the pool (the suffix is random and not
\* drawn again), so n pairwise distinct fresh candidates grow the pool by n. A pick then
\* returns an address of the pool that no earlier pick returned, and returns none
\* exactly when every address of the pool has been picked (or was loaded non-idle).
C13_SpawnsThenPicks ==
    [][/\ (sp["loop"].pc = "add" /\ sp'["loop"].pc = "snap") =>
            global_db'.addrs =
                IF sp["loop"].addr \in Range(global_db.addrs)
                THEN global_db.addrs
                ELSE Append(global_db.addrs, sp["loop"].addr)
       /\ (checker = "ok" /\ SpawnsEnd /\ el'.pc = "spawned") =>
            /\ Len(sp["loop"].out) = sp["loop"].n
            /\ \A a \in Range(sp["loop"].out) :
                StartsWith(a, prefix) /\ a \in Range(global_db.addrs)
            /\ \A n \in Names :
                mirrors[n].exists => AddrsOf(mirrors[n].addrs) = Range(global_db.addrs)
       /\ (checker = "ok" /\ PickStep) =>
            LET recs == mirrors[el.m].addrs
                spent == {a \in AddrsOf(recs) :
                            \/ a \in lease[el.m]
                            \/ origin[el.m][a] = "load" /\ RecOf(recs, a).status # "idle"}
            IN  /\ AddrsOf(recs) = Range(global_db.addrs)
                /\ IF spent = AddrsOf(recs)
                   THEN el'.addr = NoAddr
                   ELSE el'.addr \in AddrsOf(recs) \ spent]_vars

\* On a server started without files, two picks returned the two addresses that
\* spawns() admitted and the third pick returns none.
C13_Witness ==
    /\ checker = "ok"
    /\ ~gFile.exists
    /\ el.pc = "picked"
    /\ el.addr = NoAddr
    /\ Len(global_db.addrs) = 2
    /\ lease[el.m] = Range(global_db.addrs)

\* GlobalAddrsDB.flush() returned: its save() was the last thing it did.
GlobalFlushReturns == el.pc = "fa_gsave" /\ el'.pc = "fa_mirrors"
\* MirrorDB.flush() of flush(dbname) returned.
MirrorFlushReturns == el.pc = "fn_save" /\ el'.pc = "fn_snap"

\* C14: when GlobalAddrsDB.flush() or MirrorDB.flush() returns, the store holds no
\* address in memory and its file holds none, whatever add_addr and sync_from_global
\* calls the worker thread made while the flush ran.
C14_FlushLeavesEmpty ==
    [][/\ GlobalFlushReturns =>
            /\ global_db'.addrs = <<>>
            /\ gFile'.exists /\ gFile'.addrs = <<>>
       /\ MirrorFlushReturns =>
            /\ mirrors'[el.m].addrs = <<>>
            /\ mFile'[el.m].exists /\ mFile'[el.m].addrs = <<>>]_vars

\* load() ran global_db.load().
GlobalLoadStep == el.pc = "idle" /\ el'.pc = "ld_m"
\* A fresh process was constructed on the files of the stopped one.
RestartStep == el.pc = "down" /\ el'.pc = "up"

C16_StatsAddUp ==
    \A n \in Names :
        LET stats == GetStats(mirrors[n].addrs)
        IN  stats.total = stats.idle + stats.using + stats.unusable

\* A report has just been served on a mirror that holds a USING and an UNUSABLE record.
C16_Witness ==
    /\ el.pc = "reported"
    /\ GetStats(mirrors[el.m].addrs).using >= 1
    /\ GetStats(mirrors[el.m].addrs).unusable >= 1
    /\ GetStats(mirrors[el.m].addrs).total >= 2

\* C17: release_addr(a, s) on an address the mirror holds sets that record's status to
\* s, whatever its status was and for each of the three statuses, and changes nothing
\* else: not the record's use_count or last_used_at, no other record, no other mirror,
\* not the global pool, no file. After a release to IDLE the record is idle, and a pick
\* returns the first idle record of the mirror, which is a's as soon as no idle record
\* precedes it.
C17_ReleaseSetsStatus ==
    [][/\ (ReleaseStep /\ el'.addr \in AddrsOf(mirrors[el.m].addrs)) =>
            LET m == el.m
                old == mirrors[m].addrs
                new == mirrors'[m].addrs
                i == IndexOf(old, el'.addr)
            IN  /\ Len(new) = Len(old)
                /\ new[i] = [old[i] EXCEPT !.status = el'.status]
                /\ \A j \in 1..Len(old) : j # i => new[j] = old[j]
                /\ \A n \in Names : n # m => mirrors'[n] = mirrors[n]
                /\ global_db' = global_db /\ gFile' = gFile /\ mFile' = mFile
                /\ el'.status = "idle" =>
                        /\ FirstIdle(new) # 0
                        /\ (\A j \in 1..(i - 1) : new[j].status # "idle") => FirstIdle(new) = i
       /\ (PickStep /\ FirstIdle(mirrors[el.m].addrs) # 0) =>
            el'.addr = mirrors[el.m].addrs[FirstIdle(mirrors[el.m].addrs)].addr]_vars

\* A pick has returned, for the second time, an address that a report released.
C17_Witness ==
    /\ el.pc = "picked"
    /\ el.addr \in AddrsOf(mirrors[el.m].addrs)
    /\ origin[el.m][el.addr] = "pick"
    /\ RecOf(mirrors[el.m].addrs, el.addr).use_count = 2
    /\ Len(mirrors[el.m].addrs) >= 2

\* C18: release_addr for an address the mirror does not hold creates no record and
\* changes none, in this mirror or another, and the report is answered with success.
C18_UnknownIsNoOp ==
    [][(ReleaseStep /\ el'.addr \notin AddrsOf(mirrors[el.m].addrs)) =>
            /\ mirrors' = mirrors
            /\ global_db' = global_db /\ gFile' = gFile /\ mFile' = mFile
            /\ el'.success]_vars

\* A report of an address the mirror does not hold has been served on a mirror that
\* holds records.
C18_Witness ==
    /\ el.pc = "reported"
    /\ el.addr \in AllAddr
    /\ el.addr \notin AddrsOf(mirrors[el.m].addrs)
    /\ el.success
    /\ Len(mirrors[el.m].addrs) >= 1

\* C19: get_idle_addr on a mirror with no IDLE record, empty or all USING or UNUSABLE,
\* returns None and changes no record; the pick is answered with success = false.
C19_NoIdleNoChange ==
    [][(PickStep /\ \A i \in 1..Len(mirrors[el.m].addrs) :
                        mirrors[el.m].addrs[i].status # "idle") =>
            /\ el'.addr = NoAddr
            /\ ~el'.success
            /\ mirrors' = mirrors
            /\ global_db' = global_db]_vars

\* A pick has returned none on a mirror that holds a USING and an UNUSABLE record.
C19_Witness ==
    /\ el.pc = "picked"
    /\ el.addr = NoAddr
    /\ GetStats(mirrors[el.m].addrs).using >= 1
    /\ GetStats(mirrors[el.m].addrs).unusable >= 1
    /\ GetStats(mirrors[el.m].addrs).idle = 0

\* C20: a report whose addr is not an IPv6 literal changes no mirror record and is
\* answered with success = false.
C20_InvalidRejected ==
    [][(ReleaseStep /\ el'.addr = InvalidAddr) =>
            /\ mirrors' = mirrors
            /\ ~el'.success]_vars

\* The event loop took a report request whose status is s.
ReportTaken(s) == el.pc = "idle" /\ el'.pc \in {"report", "report_raised"} /\ el'.status = s

\* C21: a report request whose status is none of "idle", "using", "unusable" changes
\* no mirror record and is answered in the response body with success = false, not
\* with an unhandled error.
C21_BadStatusAnswered ==
    [][/\ (\E s \in BadStatuses : ReportTaken(s)) =>
            /\ mirrors' = mirrors
            /\ el'.pc # "report_raised"
       /\ (el.pc = "reported" /\ el.status \in BadStatuses) => ~el.success]_vars

\* The process was killed during a save.
CrashStep == el.pc \in {"idle", "sv_m"} /\ el'.pc = "down" /\ el'.via = "crash"

\* C22: load() on a malformed file leaves the store with no addresses, the global pool
\* and every mirror, in a load() on a store that holds addresses and at the
\* construction of the server (where get_mirror then syncs the empty mirror to the
\* pool).
C22_MalformedLoadsEmpty ==
    [][/\ (GlobalLoadStep /\ gFile.bad) => global_db'.addrs = <<>>
       /\ LoadStep =>
            \A n \in Names : (mirrors[n].exists /\ mFile[n].bad) => mirrors'[n].addrs = <<>>
       /\ RestartStep =>
            /\ gFile.bad => global_db'.addrs = <<>>
            /\ \A n \in Names :
                mFile[n].bad =>
                    /\ mirrors'[n].exists
                    /\ mirrors'[n].addrs = SyncFromGlobal(<<>>, GetAllAddrs(global_db'))]_vars

\* C26: when the process is killed during save(), the file of the global pool and of
\* each mirror is the complete document of before or the complete new one.
C26_SaveIsAtomic ==
    [][CrashStep =>
        /\ gFile' \in {gFile, GlobalSaved(global_db)}
        /\ \A n \in Names : mFile'[n] \in {mFile[n], MirrorSaved(mirrors[n].addrs)}]_vars

\* GET /spawns built its answer from what spawns() returned.
SpawnsAnswered == el.pc = "spawns" /\ el'.pc = "spawned"

\* C23: the addrs of the answer of GET /spawns is the list of the addresses that
\* spawns() admitted, without the should_stop flag, and success is true exactly when
\* that list is not empty.
C23_AnswerIsTheList ==
    [][SpawnsAnswered =>
        /\ Len(el'.snap) = Len(sp["loop"].out)
        /\ el'.snap = sp["loop"].out
        /\ el'.success = (Len(sp["loop"].out) > 0)]_vars

\* The event loop began a handler that calls get_mirror(n): pick, report or flush(n).
Referenced(n) == el.pc = "idle" /\ el'.pc \in {"pick", "report", "fn_clear"} /\ el'.m = n
\* GET /stats?dbname=n was served.
StatsStep(n) == el.pc = "idle" /\ el' = el /\ CreateStep(n)

\* C24: no step removes a name from the server's map of mirrors, flush() of all
\* stores and the handling of a prefix change included; a name enters the map only in
\* a pick, report, stats or flush(name) call that names it, and is in the map as soon
\* as such a call has run get_mirror.
C24_NamesOnlyGrow ==
    [][/\ \A n \in Names : mirrors[n].exists => mirrors'[n].exists
       /\ \A n \in Names : CreateStep(n) => (Referenced(n) \/ StatsStep(n))
       /\ \A n \in Names : Referenced(n) => mirrors'[n].exists]_vars

\* The prefix changed and flush() has emptied the global pool; both names are in the
\* map, one with a record, and the mirrors are about to be flushed.
C24_Witness ==
    /\ el.pc = "fa_mirrors"
    /\ el.via = "route"
    /\ \A n \in Names : mirrors[n].exists
    /\ \E n \in Names : mirrors[n].addrs # <<>>

\* lifespan's shutdown cancelled the background tasks.
CancelStep == el.pc = "idle" /\ el'.pc = "stop_m"

\* C25: the cancellation of the background tasks is followed by a save of the global
\* pool and of the mirrors, and once that save is done the spawn batch the maintenance
\* task had in flight admits no address.
C25_NothingAfterFinalSave ==
    [][/\ CancelStep => (mt' \in {"cancelled", "done"} /\ gFile' = GlobalSaved(global_db))
       /\ (el.pc = "stop_m" /\ el'.pc = "down") =>
            \A n \in Names : mirrors[n].exists => mFile'[n] = MirrorSaved(mirrors[n].addrs)
       /\ el.pc = "down" => global_db' = global_db]_vars

\* A spawn() call of the spawns() on the event loop returned: None after the failed
\* checks, or the address after the sync of the mirrors.
SpawnOneReturned ==
    /\ el.pc = "spawns"
    /\ sp["loop"].pc \in {"check", "sync"}
    /\ sp'["loop"].pc \in {"gen", "ret"}

\* C27: spawns(n) calls spawn() at most n times; each return of spawn() sets the
\* failure counter to 0 (an address) or adds one to it (None), and appends the address
\* to the list; the loop ends at once when the counter reaches SPAWN_MAX_ADDRS, and
\* otherwise after the n-th call; should_stop is true exactly when the counter has
\* reached SPAWN_MAX_ADDRS; the list returned holds the addresses spawn() returned, in
\* order.
C27_SpawnsLoop ==
    [][/\ SpawnOneReturned =>
            LET l == sp["loop"]
                r == sp'["loop"]
                success == l.pc = "sync"
            IN  /\ r.n = l.n
                /\ r.i = l.i + 1 /\ r.i <= l.n
                /\ r.fails = IF success THEN 0 ELSE l.fails + 1
                /\ r.out = IF success THEN Append(l.out, l.addr) ELSE l.out
                /\ r.stop = (r.fails >= SPAWN_MAX_ADDRS)
                /\ (r.pc = "ret") = (r.fails >= SPAWN_MAX_ADDRS \/ r.i = l.n)
       /\ (el.pc = "idle" /\ el'.pc = "spawns") =>
            (sp'["loop"].i = 0 /\ sp'["loop"].fails = 0 /\ sp'["loop"].out = <<>>)
       /\ SpawnsEnd =>
            /\ sp["loop"].fails <= SPAWN_MAX_ADDRS
            /\ sp["loop"].stop = (sp["loop"].fails = SPAWN_MAX_ADDRS)
            /\ Len(sp["loop"].out) + sp["loop"].fails <= sp["loop"].i]_vars

\* spawns(3) is about to return after a failed, a successful and a failed spawn(): the
\* counter is 1 and the list holds the one address.
C27_Witness ==
    /\ SpawnsEnd
    /\ sp["loop"].i = 3
    /\ sp["loop"].fails = 1
    /\ Len(sp["loop"].out) = 1
    /\ ~sp["loop"].stop

\* C28: a spawn() whose candidate passed a check stopped probing at that check, and
\* when it returns the address (no flush runs in these behaviours) the address is in
\* the global pool and in every existing mirror, as a fresh IDLE record where the
\* mirror did not hold it; the records of the other addresses are as they were.
C28_SpawnAdmits ==
    [][/\ \A t \in Threads :
            (sp[t].pc = "check" /\ sp'[t].pc = "add") =>
                sp'[t].checks \in (CheckerChoices \ {0})
       /\ \A t \in Threads :
            SpSyncStep(t) =>
                LET a == sp[t].addr
                IN  /\ a \in Range(global_db'.addrs)
                    /\ \A n \in Names :
                        mirrors'[n].exists =>
                            LET old == mirrors[n].addrs
                                new == mirrors'[n].addrs
                            IN  /\ a \in AddrsOf(new)
                                /\ a \notin AddrsOf(old) => RecOf(new, a) = MirrorAddrInfo(a)
                                /\ \A i \in 1..Len(old) :
                                    old[i].addr # a => old[i] \in Range(new)]_vars

\* The maintenance task's self.save() after a batch returned.
BatchSaved == el.pc = "sv_m" /\ el.via = "maint" /\ el'.pc = "idle"

BatchStarted == mt = "sleep" /\ mt' = "await"

\* C30: a tick of the maintenance task calls spawns() only when the global pool holds
\* fewer than usable_num addresses, with usable_num minus the pool's size of that
\* moment; spawns() is called by nothing else here; after the batch the task saves the
\* pool and the mirrors before it sleeps or returns; with a pool of usable_num or more
\* the task starts nothing, so no admission takes the pool above usable_num.
C30_MaintainsUpToUsableNum ==
    [][/\ BatchStarted =>
            /\ Len(global_db.addrs) < usable_num
            /\ sp'["worker"] = SpStart(usable_num - Len(global_db.addrs))
       /\ (sp["worker"].pc = "off" /\ sp'["worker"].pc # "off") => BatchStarted
       /\ Len(global_db.addrs) >= usable_num => ~BatchStarted
       /\ (mt = "await" /\ el.pc = "idle" /\ el'.pc = "sv_m") =>
            (sp["worker"].pc = "ret" /\ gFile' = GlobalSaved(global_db))
       /\ (mt = "await" /\ mt' # "await") =>
            /\ BatchSaved
            /\ \A n \in Names : mirrors[n].exists => mFile'[n] = MirrorSaved(mirrors[n].addrs)
       /\ Len(global_db'.addrs) > Len(global_db.addrs) =>
            Len(global_db'.addrs) <= usable_num]_vars

\* The maintenance task has filled the pool to usable_num and saved it; it sleeps.
C30_Witness ==
    /\ mt = "sleep"
    /\ el.pc = "idle"
    /\ Len(global_db.addrs) = usable_num
    /\ gFile = GlobalSaved(global_db)
    /\ sp["worker"].pc = "off"

\* The event loop left the except branch of monitor_route.
SwallowStep == el.pc = "ur_raised" /\ el' # el

\* C31: an error raised in a route-monitor tick (the probe, or IPv6RouteUpdater.run) is
\* swallowed: the tick is over, nothing is written, the event loop is free for the next
\* tick; the server goes down only through lifespan's shutdown.
C31_ErrorsSwallowed ==
    [][/\ SwallowStep =>
            /\ el' = ElIdle
            /\ UNCHANGED <<prefix, global_db, mirrors, gFile, mFile, pendingFlush>>
       /\ el'.pc = "down" => el.pc \in {"stop_m", "down"}]_vars

\* A tick whose probe failed, after an earlier tick whose run() raised was swallowed.
C31_Witness ==
    /\ el.pc = "ur_raised"
    /\ el.runs = 0
    /\ pendingFlush

\* C32: a prefix change the route monitor has stored is eventually followed by the
\* flush of the global pool and of every mirror (unless the server is shut down first).
C32_ChangeIsFlushed ==
    (pendingFlush /\ el.pc # "down") ~> (~pendingFlush \/ el.pc \in {"stop_m", "down"})

\* C33: sync_from_global(globals) leaves the mirror with exactly the addresses of
\* globals, each once: an address of globals the mirror did not hold gets a fresh
\* record (idle, never used), an address outside globals is removed, and a record that
\* stays keeps its status, use_count and last_used_at. Checked on every sync of a
\* spawn(), with the list that spawn() took, and on the sync of flush(dbname).
C33_SyncResult ==
    [][\A n \in Names :
        LET old == mirrors[n].addrs
            new == mirrors'[n].addrs
            Synced(globals) ==
                /\ AddrsOf(new) = Range(globals)
                /\ Len(new) = Cardinality(Range(globals))
                /\ \A a \in Range(globals) \ AddrsOf(old) : RecOf(new, a) = MirrorAddrInfo(a)
                /\ \A a \in Range(globals) \cap AddrsOf(old) : RecOf(new, a) = RecOf(old, a)
        IN  /\ \A t \in Threads :
                (SpSyncStep(t) /\ mirrors[n].exists) => Synced(sp[t].snap)
            /\ (FlushNameSyncStep /\ el.m = n) => Synced(el.snap)]_vars

\* The sync of GET /spawn has just kept a used record and added a fresh one.
C33_Witness ==
    /\ el.pc = "spawn"
    /\ sp["loop"].pc = "ret"
    /\ sp["loop"].out # <<>>
    /\ mirrors["default"].exists
    /\ \E i, j \in 1..Len(mirrors["default"].addrs) :
        /\ mirrors["default"].addrs[i].status # "idle"
        /\ mirrors["default"].addrs[i].use_count >= 1
        /\ mirrors["default"].addrs[j] = MirrorAddrInfo(sp["loop"].out[1])
        /\ origin["default"][sp["loop"].out[1]] = "sync"

\* C34: flush(dbname) touches the named mirror only: it gets (or creates) the mirror,
\* empties it, saves it, then syncs it from the global pool as it reads it, after which
\* the mirror holds exactly those addresses; no step of it changes the global pool,
\* the pool's file, another mirror or another mirror's file. flush() without a name
\* empties the global pool and every mirror.
C34_FlushScope ==
    [][/\ (el'.pc = "fn_clear" /\ el.pc = "idle") =>
            /\ global_db' = global_db
            /\ \A n \in Names \ {el'.m} : mirrors'[n] = mirrors[n]
       /\ (el.pc \in {"fn_clear", "fn_save", "fn_snap", "fn_sync"} /\ el' # el) =>
            /\ global_db' = global_db
            /\ gFile' = gFile
            /\ \A n \in Names \ {el.m} : mirrors'[n] = mirrors[n] /\ mFile'[n] = mFile[n]
       /\ (el.pc = "fn_clear" /\ el' # el) => mirrors'[el.m].addrs = <<>>
       /\ (el.pc = "fn_snap" /\ el' # el) => el'.snap = global_db.addrs
       /\ FlushNameSyncStep => AddrsOf(mirrors'[el.m].addrs) = Range(el.snap)
       /\ (el.pc = "fa_gclear" /\ el' # el) => global_db'.addrs = <<>>
       /\ (el.pc = "fa_mirrors" /\ el' # el) => \A n \in Names : mirrors'[n].addrs = <<>>]_vars

\* flush(dbname) has emptied its mirror; the pool and the other mirror hold an address.
C34_Witness ==
    /\ el.pc = "fn_save"
    /\ mirrors[el.m].addrs = <<>>
    /\ global_db.addrs # <<>>
    /\ \E n \in Names \ {el.m} : mirrors[n].exists /\ mirrors[n].addrs # <<>>

\* C35: a pick on a mirror never returns an address that an earlier pick on that mirror
\* returned and that was not reported since, whatever calls (flush(dbname), load())
\* came between the two picks.
C35_NoDoubleLeaseAcrossFlush ==
    [][(PickStep /\ el'.addr # NoAddr) => el'.addr \notin lease[el.m]]_vars

\* C36: every read or write of the global pool's address map and prefix, by whatever
\* call, is made by a thread that holds the pool's mutex.
C36_PoolUnderMutex ==
    \A t \in Threads :
        (lk[t].todo # <<>> /\ Head(lk[t].todo) = [k |-> "use", l |-> "global_db"])
            => "global_db" \in lk[t].held

\* C37: a thread that acquires the global pool's mutex or the mirror map's mutex holds
\* no mirror's mutex at that moment.
C37_LockOrder ==
    [][\A t \in Threads :
        (lk'[t].held \ lk[t].held) \cap {"global_db", "mirrors"} # {}
            => lk[t].held \cap Names = {}]_vars

\* The event loop holds the mirror map's mutex and a mirror's, in get_mirror(), while
\* the worker thread holds the global pool's.
C37_Witness ==
    /\ "mirrors" \in lk["loop"].held
    /\ lk["loop"].held \cap Names # {}
    /\ lk["worker"].held = {"global_db"}

C39_RunAsSpecified ==
    ru.pc = "done" =>
        ru.log = IF IsNdppdConfLatest(ru.conf0, "eth0", ru.prefix) /\ ~ru.force
                 THEN <<"add_route">>
                 ELSE <<"add_route", "modify_ndppd_conf", "restart_ndppd", "wait_ndppd_work">>

\* C39, amended: run(force_restart) installs the route first; with a current config it
\* does nothing further without force, and with force it restarts the daemon and
\* waits, without rewriting the config; with a config that is not current it rewrites
\* the config, restarts the daemon and waits, in that order, whatever force is.
C39_RunSteps ==
    ru.pc = "done" =>
        /\ ru.log =
             IF ~IsNdppdConfLatest(ru.conf0, "eth0", ru.prefix)
             THEN <<"add_route", "modify_ndppd_conf", "restart_ndppd", "wait_ndppd_work">>
             ELSE IF ru.force
                  THEN <<"add_route", "restart_ndppd", "wait_ndppd_work">>
                  ELSE <<"add_route">>
        /\ ru.conf = IF IsNdppdConfLatest(ru.conf0, "eth0", ru.prefix)
                     THEN ru.conf0 ELSE <<"eth0", ru.prefix>>

\* run(True) has returned on a host whose config was current: restart and wait only.
C39_Witness ==
    /\ ru.pc = "done"
    /\ ru.force
    /\ IsNdppdConfLatest(ru.conf0, "eth0", ru.prefix)
    /\ ru.log = <<"add_route", "restart_ndppd", "wait_ndppd_work">>

\* C40: the probe selects the first interface, in enumeration order, that is not
\* excluded and has an IPv6 address starting with "2", wherever that address stands
\* in the interface's list, and takes the prefix of that address; it fails exactly
\* when no interface qualifies.
C40_FirstQualifying ==
    pb.pc \in {"done", "raised"} =>
        LET starts2(i) == {j \in 1..Len(pb.ifs[i].addrs) : pb.ifs[i].addrs[j][1] = "2"}
            qualifying == {i \in 1..Len(pb.ifs) :
                             ~Excluded(pb.ifs[i].name) /\ starts2(i) # {}}
        IN  IF qualifying = {}
            THEN pb.pc = "raised"
            ELSE LET i == CHOOSE x \in qualifying : \A y \in qualifying : x <= y
                     j == CHOOSE x \in starts2(i) : \A y \in starts2(i) : x <= y
                 IN  pb.pc = "done" /\ pb.prefix = pb.ifs[i].addrs[j][2]


====
